---- MODULE Spec2Model ----
(***************************************************************************)
(* Model of find_duplicates.py (afbarnard/sysisys): the metadata store,    *)
(* the comparison pass with its lazy multi-key sort, the gathering of      *)
(* duplicate groups, and the shell procedure dedup() that the report       *)
(* script emits.                                                           *)
(***************************************************************************)
EXTENDS Integers, Sequences, FiniteSets, TLC

(***************************************************************************)
(* Part I.  The emitted shell procedure dedup(orig, copy).                 *)
(*                                                                         *)
(* The script runs under `set -e`; dedup is called as a simple command     *)
(* at the top level, so inside it every simple command that fails ends     *)
(* the script, except in the `if` condition and on the left of `||`.       *)
(***************************************************************************)

VARIABLES
    dedup_cmd,  \* the link style substituted for ${dedup_cmd}
    names,      \* directory entries: "orig", "copy", "bkup" -> inode, Absent or SymToOrig
    inodes,     \* inode -> [data, meta, attrs, ext]
    pc,         \* the statement of dedup() about to run, or "done" / "exited"
    exitAt,     \* the statement at which the script exited ("" while running)
    run,        \* how many times the plan has been started
    prevRun     \* how the previous run of the plan ended ("" for the first run)

dedupVars == <<dedup_cmd, names, inodes, pc, exitAt, run, prevRun>>

\* Part II: the store and the comparison pass.
VARIABLES
    fsys,       \* the file system: path -> [exists, data, inode, mtime, ext]
    fsOps,      \* how many times other programs have changed the file system
    fmeta,      \* the table fmeta as the connection in use sees it: path -> row
    committed,  \* the table as last committed (what a rollback restores)
    fpc,        \* the command find: "idle", "running", "found" (it returned), "crashed"
                \* (it raised), or "reported" (a report has run after it)
    fexc,       \* the exception that ended the last pass ("" if none)
    cursor,     \* the FileMeta objects the query cursor has still to deliver
    seen,       \* path -> the FileMeta object of the current pass (NoObject if not read)
    dups,       \* the groups gather_duplicates yielded last
    scanLog     \* n_inserts and n_updates as the last scan logged them

storeVars == <<fsys, fsOps, fmeta, committed, fpc, fexc, cursor, seen, dups, scanLog>>

\* Part III: the report of one group of duplicates.
VARIABLES
    stats,      \* path -> what os.stat(path) gives now: [exists, st_mtime_ns, st_nlink]
    abspaths,   \* path -> os.path.abspath(path); two spellings of a file share it
    duplicates, \* the group handed to organize_duplicates: a list of FileMeta objects
    organized,  \* what organize_duplicates returned for it (NoGroup before it has)
    script,     \* the lines report_script has printed
    rpc,        \* "gathered", "organized", "reported" or "crashed"
    rexc        \* the exception that ended the report ("" if none)

reportVars == <<stats, abspaths, duplicates, organized, script, rpc, rexc>>

\* Part IV: one call of checksum_file.
VARIABLES
    cf_data,    \* the bytes of the file
    cf_region,  \* the region size N (FileMeta.checksum_size)
    cf_call,    \* the digest asked for: "head", "tail" or "full" ("" before the call)
    cf_result   \* what the call did: [err, offset, size, digest]

checksumVars == <<cf_data, cf_region, cf_call, cf_result>>

\* Part V: one run of the program, from the command line or through main_api.
VARIABLES
    m_entry,    \* "cli" (main_cli) or "api" (main_api called directly)
    m_args,     \* what was asked: [commands, dedup, min_size, paths_ok]
    m_kwargs,   \* the arguments main_api runs with: [commands, dedup]
    m_pc,       \* "args", "api", "done", or "raised"
    m_next,     \* the position in _commands the loop of main_api has reached
    m_running,  \* the command that is running ("" if none)
    m_calls,    \* the calls and returns of commands so far: [cmd, event]
    m_effects,  \* what the run has done: "scan", "checksum", "store write", "script output"
    m_exc       \* the exception that ended the run ("" if none)

mainVars == <<m_entry, m_args, m_kwargs, m_pc, m_next, m_running, m_calls, m_effects, m_exc>>

\* Part VI: a comparison pass while another process scans.
VARIABLES
    r_sorted,   \* the size-class the pass has sorted and not yet flushed (<<>> if none)
    r_txn       \* the connection of the pass has written since its last commit

raceVars == <<r_sorted, r_txn>>

\* Part VII: LineTokenizer.tokens of the timesheet module, a generator run step by step.
VARIABLES
    t_patterns,  \* self._patterns: the (pattern, constructor) pairs in the order given
    t_no_match,  \* self._no_match: the handler called where no pattern matches
    t_file,      \* the lines of the input, line ends kept
    t_filename,  \* the file name given to tokens()
    t_n_lines,   \* n_lines: the 1-based number of the current line
    t_idx,       \* idx: the 0-based position in the current line
    t_pc,        \* where the generator stands: "lines", "line", "returned", "raised"
    t_yielded,   \* the tokens yielded so far, in order
    t_trace,     \* what each turn of the inner loop did, in order
    t_exc        \* the exception that ended the generator, if any

tokenizerVars == <<t_patterns, t_no_match, t_file, t_filename, t_n_lines, t_idx, t_pc,
                   t_yielded, t_trace, t_exc>>

\* Part VIII: Parser.makeBasicAST of the historical time digester, token by token.
VARIABLES
    p_tokens,             \* the tokens of the file, in order
    lastDate,             \* self.lastDate
    lastTimeIntervalEnd,  \* self.lastTimeIntervalEnd
    ast,                  \* the nodes parsed so far, one per token
    p_pc,                 \* "parsing", "returned" or "raised"
    p_exc                 \* the message of the ParseException raised, if any

parserVars == <<p_tokens, lastDate, lastTimeIntervalEnd, ast, p_pc, p_exc>>

\* Part IX: one call of multikey_sort on a list of its own.
VARIABLES
    s_lst,       \* lst, sorted in place
    s_keys,      \* keys
    s_reverses,  \* reverses (<<>> for None)
    s_start,     \* start (Null for None)
    s_stop,      \* stop (Null for None)
    s_input,     \* the list as it was passed
    s_pc         \* "call" before the call, "returned" after it

sortVars == <<s_lst, s_keys, s_reverses, s_start, s_stop, s_input, s_pc>>

\* Part X: how the paths of a call of dedup() lie to one another.
VARIABLES
    bkup_is_orig  \* the backup path "${copy}.dedup.bak" is the path of the original

backupVars == <<bkup_is_orig>>

vars == <<dedupVars, storeVars, reportVars, checksumVars, mainVars, raceVars, tokenizerVars, parserVars, sortVars, backupVars>>

\* What the steps of one part leave alone: the variables of the other parts.
notDedupVars == <<storeVars, reportVars, checksumVars, mainVars, raceVars, tokenizerVars, parserVars, sortVars, backupVars>>
notStoreVars == <<dedupVars, reportVars, checksumVars, mainVars, raceVars, tokenizerVars, parserVars, sortVars, backupVars>>
notReportVars == <<dedupVars, storeVars, checksumVars, mainVars, raceVars, tokenizerVars, parserVars, sortVars, backupVars>>
notChecksumVars == <<dedupVars, storeVars, reportVars, mainVars, raceVars, tokenizerVars, parserVars, sortVars, backupVars>>
notMainVars == <<dedupVars, storeVars, reportVars, checksumVars, raceVars, tokenizerVars, parserVars, sortVars, backupVars>>
notRaceVars == <<dedupVars, storeVars, reportVars, checksumVars, mainVars, tokenizerVars, parserVars, sortVars, backupVars>>
notTokenizerVars == <<dedupVars, storeVars, reportVars, checksumVars, mainVars, raceVars, parserVars, sortVars, backupVars>>
notParserVars == <<dedupVars, storeVars, reportVars, checksumVars, mainVars, raceVars, tokenizerVars, sortVars, backupVars>>
notSortVars == <<dedupVars, storeVars, reportVars, checksumVars, mainVars, raceVars, tokenizerVars, parserVars, backupVars>>
notBackupVars == <<dedupVars, storeVars, reportVars, checksumVars, mainVars, raceVars, tokenizerVars, parserVars, sortVars>>
\* What a step of the pass beside a scanning process leaves alone.
notPassVars == <<dedupVars, reportVars, checksumVars, mainVars, tokenizerVars, parserVars, sortVars, backupVars>>

\* How many times the plan is run one after the other.
MaxRuns == 2

Absent == 0
SymToOrig == -1
OrigIno == 1
CopyIno == 2
NewIno == 3
\* metadata and attributes of a file just created by cp, before they are restored
FreshMeta == 0

Styles == {"hardlink", "softlink", "reflink", "custom"}
DataValues == {"A", "B"}
FreeInode == [data |-> "", meta |-> FreshMeta, attrs |-> FreshMeta, ext |-> 0]

\* The inode a name resolves to when the command follows symbolic links.
Deref(nm, n) == IF nm[n] = SymToOrig THEN nm["orig"] ELSE nm[n]

\* [[ -f "${f}" ]]: an existing regular file (symbolic links are followed).
IsRegularFile(nm, n) == Deref(nm, n) # Absent

\* [[ "${1}" -ef "${2}" ]]: both names resolve to the same inode.
SameFile(nm, a, b) == Deref(nm, a) # Absent /\ Deref(nm, a) = Deref(nm, b)

\* equal_extents: cmp of the two filefrag listings with the path lines removed.
\* A name that does not resolve lists nothing.
ExtentsOf(nm, ino, n) == IF Deref(nm, n) = Absent THEN 0 ELSE ino[Deref(nm, n)].ext
equal_extents(nm, ino, a, b) == ExtentsOf(nm, ino, a) = ExtentsOf(nm, ino, b)

\* cmp --quiet: both readable and byte-for-byte equal.
CmpQuiet(nm, ino, a, b) ==
    /\ Deref(nm, a) # Absent
    /\ Deref(nm, b) # Absent
    /\ ino[Deref(nm, a)].data = ino[Deref(nm, b)].data

\* stat --format: the name itself is examined (a symbolic link is not followed);
\* a missing name gives the empty string.
StatOf(nm, ino, n) ==
    IF nm[n] = Absent THEN <<"none">>
    ELSE IF nm[n] = SymToOrig THEN <<"symbolic link">>
    ELSE <<"regular file", ino[nm[n]].meta>>

\* getfattr --dump follows symbolic links; a missing name dumps nothing.
AttrsOf(nm, ino, n) == IF Deref(nm, n) = Absent THEN <<>> ELSE <<ino[Deref(nm, n)].attrs>>

\* cmp_files_metas_attrs: status 0 only when metadata, attributes and contents agree.
cmp_files_metas_attrs(nm, ino, a, b) ==
    /\ StatOf(nm, ino, a) = StatOf(nm, ino, b)
    /\ AttrsOf(nm, ino, a) = AttrsOf(nm, ino, b)
    /\ CmpQuiet(nm, ino, a, b)

\* die, or a failing simple command under set -e: the script exits at this statement.
Exit(at) ==
    /\ pc' = "exited"
    /\ exitAt' = at

\* A change of the directory entry at the backup path: it is the entry of the
\* original when the two paths are the same.
WriteBkup(nm, v) ==
    IF bkup_is_orig THEN [nm EXCEPT !["bkup"] = v, !["orig"] = v]
    ELSE [nm EXCEPT !["bkup"] = v]

\* The file systems dedup() can be started on: the original with its inode, the
\* copy absent, a hard link or a symbolic link of the original, or a file of its
\* own that may share the original's extents (and then its data), and nothing
\* at the backup path unless that is the path of the original.
StartDedup(aliased) ==
    /\ dedup_cmd \in Styles
    /\ \E o \in {Absent, OrigIno}, c \in {Absent, SymToOrig, OrigIno, CopyIno} :
         /\ (c \in {SymToOrig, OrigIno} => o = OrigIno)
         /\ names = [orig |-> o, copy |-> c, bkup |-> IF aliased THEN o ELSE Absent]
    /\ \E d \in DataValues, m \in {1, 2}, a \in {1, 2}, e \in {1, 2} :
         /\ (e = 1 => d = "A")
         /\ (names["copy"] # CopyIno => (d = "A" /\ m = 1 /\ a = 1 /\ e = 2))
         /\ inodes = [i \in {OrigIno, CopyIno, NewIno} |->
                        IF i = OrigIno THEN [data |-> "A", meta |-> 1, attrs |-> 1, ext |-> 1]
                        ELSE IF i = CopyIno THEN [data |-> d, meta |-> m, attrs |-> a, ext |-> e]
                        ELSE FreeInode]
    /\ pc = "check_orig"
    /\ exitAt = ""
    /\ run = 1
    /\ prevRun = ""

\* A call with paths none of which is the backup path of another.
InitDedup == StartDedup(FALSE)

\* [[ -f "${orig}" ]] || die "Not an existing, regular file"
CheckOrig ==
    /\ pc = "check_orig"
    /\ IF IsRegularFile(names, "orig")
         THEN pc' = "check_copy" /\ UNCHANGED exitAt
         ELSE Exit("check_orig")
    /\ UNCHANGED <<dedup_cmd, names, inodes, run, prevRun, notDedupVars>>

\* [[ -f "${copy}" ]] || die "Not an existing, regular file"
CheckCopy ==
    /\ pc = "check_copy"
    /\ IF IsRegularFile(names, "copy")
         THEN pc' = "check_linked" /\ UNCHANGED exitAt
         ELSE Exit("check_copy")
    /\ UNCHANGED <<dedup_cmd, names, inodes, run, prevRun, notDedupVars>>

\* A procedure that goes on to link files that are already linked.
CheckLinkedNoReturn ==
    /\ pc = "check_linked"
    /\ pc' = "cmp"
    /\ UNCHANGED <<dedup_cmd, names, inodes, exitAt, run, prevRun, notDedupVars>>

\* if [[ "${orig}" -ef "${copy}" ]] || equal_extents ...; then log; return 0; fi
CheckLinked ==
    /\ pc = "check_linked"
    /\ IF SameFile(names, "orig", "copy") \/ equal_extents(names, inodes, "orig", "copy")
         THEN pc' = "done"
         ELSE pc' = "cmp"
    /\ UNCHANGED <<dedup_cmd, names, inodes, exitAt, run, prevRun, notDedupVars>>

\* A procedure that renames the copy aside without comparing the contents first.
CmpOrigCopyNoDie ==
    /\ pc = "cmp"
    /\ pc' = "mv"
    /\ UNCHANGED <<dedup_cmd, names, inodes, exitAt, run, prevRun, notDedupVars>>

\* cmp --quiet "${orig}" "${copy}" || die "Files differ"
CmpOrigCopy ==
    /\ pc = "cmp"
    /\ IF CmpQuiet(names, inodes, "orig", "copy")
         THEN pc' = "mv" /\ UNCHANGED exitAt
         ELSE Exit("cmp")
    /\ UNCHANGED <<dedup_cmd, names, inodes, run, prevRun, notDedupVars>>

\* bkup="${copy}.dedup.bak"; mv "${copy}" "${bkup}"  (mv may fail: set -e exits)
MoveAside ==
    /\ pc = "mv"
    /\ \/ /\ names' = [WriteBkup(names, names["copy"]) EXCEPT !["copy"] = Absent]
          /\ pc' = "link"
          /\ UNCHANGED exitAt
       \/ /\ Exit("mv")
          /\ UNCHANGED names
    /\ UNCHANGED <<dedup_cmd, inodes, run, prevRun, notDedupVars>>

\* ln "${orig}" "${copy}"
LinkHard ==
    /\ pc = "link"
    /\ dedup_cmd = "hardlink"
    /\ \/ /\ names' = [names EXCEPT !["copy"] = names["orig"]]
          /\ pc' = "verify"
          /\ UNCHANGED exitAt
       \/ /\ Exit("link")
          /\ UNCHANGED names
    /\ UNCHANGED <<dedup_cmd, inodes, run, prevRun, notDedupVars>>

\* ln -s "${orig}" "${copy}"
LinkSoft ==
    /\ pc = "link"
    /\ dedup_cmd = "softlink"
    /\ \/ /\ names' = [names EXCEPT !["copy"] = SymToOrig]
          /\ pc' = "verify"
          /\ UNCHANGED exitAt
       \/ /\ Exit("link")
          /\ UNCHANGED names
    /\ UNCHANGED <<dedup_cmd, inodes, run, prevRun, notDedupVars>>

\* cp --reflink=always "${orig}" "${copy}": a new inode on the original's extents,
\* with metadata and attributes of its own; a failing cp may leave an empty file.
LinkReflink ==
    /\ pc = "link"
    /\ dedup_cmd = "reflink"
    /\ \/ /\ names' = [names EXCEPT !["copy"] = NewIno]
          /\ inodes' = [inodes EXCEPT ![NewIno] =
                          [data |-> inodes[names["orig"]].data, meta |-> FreshMeta,
                           attrs |-> FreshMeta, ext |-> inodes[names["orig"]].ext]]
          /\ pc' = "restore_attrs"
          /\ UNCHANGED exitAt
       \/ /\ Exit("link")
          /\ \/ UNCHANGED <<names, inodes>>
             \/ /\ names' = [names EXCEPT !["copy"] = NewIno]
                /\ inodes' = [inodes EXCEPT ![NewIno] = [FreeInode EXCEPT !.ext = 3]]
    /\ UNCHANGED <<dedup_cmd, run, prevRun, notDedupVars>>

\* cp --attributes-only --preserve=all "${bkup}" "${copy}"
RestoreAttrs ==
    /\ pc = "restore_attrs"
    /\ \/ /\ inodes' = [inodes EXCEPT ![NewIno].meta = inodes[names["bkup"]].meta,
                                      ![NewIno].attrs = inodes[names["bkup"]].attrs]
          /\ pc' = "verify"
          /\ UNCHANGED exitAt
       \/ /\ Exit("restore_attrs")
          /\ UNCHANGED inodes
    /\ UNCHANGED <<dedup_cmd, names, run, prevRun, notDedupVars>>

\* A command given with --dedup: any command line holding "${orig}" and "${copy}".
\* It may leave any file, link or nothing at the copy's name, and the script goes
\* on or exits according to its status.
LinkCustom ==
    /\ pc = "link"
    /\ dedup_cmd = "custom"
    /\ \/ names' = [names EXCEPT !["copy"] = Absent] /\ UNCHANGED inodes
       \/ names' = [names EXCEPT !["copy"] = names["orig"]] /\ UNCHANGED inodes
       \/ names' = [names EXCEPT !["copy"] = SymToOrig] /\ UNCHANGED inodes
       \/ \E d \in DataValues, m \in {FreshMeta, inodes[names["bkup"]].meta},
             e \in {inodes[names["orig"]].ext, 3} :
            /\ (e = inodes[names["orig"]].ext => d = inodes[names["orig"]].data)
            /\ names' = [names EXCEPT !["copy"] = NewIno]
            /\ inodes' = [inodes EXCEPT ![NewIno] =
                            [data |-> d, meta |-> m, attrs |-> inodes[names["bkup"]].attrs,
                             ext |-> e]]
    /\ \/ pc' = "verify" /\ UNCHANGED exitAt
       \/ Exit("link")
    /\ UNCHANGED <<dedup_cmd, run, prevRun, notDedupVars>>

\* A procedure that removes the backup whatever the verification says.
VerifyNoDie ==
    /\ pc = "verify"
    /\ pc' = "rm"
    /\ UNCHANGED <<dedup_cmd, names, inodes, exitAt, run, prevRun, notDedupVars>>

\* cmp_files_metas_attrs "${bkup}" "${copy}" || die "Deduplication failed: Files differ"
Verify ==
    /\ pc = "verify"
    /\ IF cmp_files_metas_attrs(names, inodes, "bkup", "copy")
         THEN pc' = "rm" /\ UNCHANGED exitAt
         ELSE Exit("verify")
    /\ UNCHANGED <<dedup_cmd, names, inodes, run, prevRun, notDedupVars>>

\* rm "${bkup}"  (rm may fail: set -e exits)
RemoveBackup ==
    /\ pc = "rm"
    /\ \/ /\ names' = WriteBkup(names, Absent)
          /\ pc' = "done"
          /\ UNCHANGED exitAt
       \/ /\ Exit("rm")
          /\ UNCHANGED names
    /\ UNCHANGED <<dedup_cmd, inodes, run, prevRun, notDedupVars>>

\* The operator runs the generated script again.
RunAgain ==
    /\ pc \in {"done", "exited"}
    /\ run < MaxRuns
    /\ run' = run + 1
    /\ prevRun' = pc
    /\ pc' = "check_orig"
    /\ exitAt' = ""
    /\ UNCHANGED <<dedup_cmd, names, inodes, notDedupVars>>

NextDedup ==
    \/ CheckOrig
    \/ CheckCopy
    \/ CheckLinked
    \/ CmpOrigCopy
    \/ MoveAside
    \/ LinkHard
    \/ LinkSoft
    \/ LinkReflink
    \/ RestoreAttrs
    \/ LinkCustom
    \/ Verify
    \/ RemoveBackup
    \/ RunAgain

(***************************************************************************)
(* Part II.  The metadata store (table fmeta), the scan that loads it, the *)
(* comparison pass find_duplicates with its lazy multi-key sort, and       *)
(* gather_duplicates.                                                      *)
(***************************************************************************)


\* How many changes other programs make to the file system.
MaxFsOps == 1
\* FileMeta.checksum_size (64 KiB in the program), scaled to the model's files.
checksum_size == 1

Paths == {1, 2, 3}
\* File contents: empty, up to checksum_size bytes, and longer ones that agree or
\* differ in the first region, the last region and the middle.
ContentList ==
    <<(<<>>), <<0>>, <<1>>, <<0, 0, 0>>, <<0, 1, 0>>, <<0, 0, 1>>, <<1, 0, 0>>>>
Contents == {ContentList[i] : i \in 1..Len(ContentList)}
Null == -1

Min(a, b) == IF a <= b THEN a ELSE b
Abs(a) == IF a < 0 THEN 0 - a ELSE a

\* The element of a one-element set.  The(\{e(x) : x \in \{v\}\}) is e(v) with v
\* evaluated once, as a local variable assigned once and then read.
The(S) == CHOOSE x \in S : TRUE

NoFile == [exists |-> FALSE, data |-> <<>>, inode |-> 0, mtime |-> 0, ext |-> 0]
NoRow == [present |-> FALSE, size |-> 0, inode |-> 0, mtime |-> 0,
          checksum_beg |-> Null, checksum_end |-> Null, checksum_all |-> Null,
          extents_hash |-> Null]
NoObject == [path |-> 0]
NoScan == [n_inserts |-> 0, n_updates |-> 0]

\* hexdigest of the bytes read: an injective code of the byte string (no collisions).
RECURSIVE Hash(_)
Hash(bytes) == IF bytes = <<>> THEN 0 ELSE (Head(bytes) + 1) + 3 * Hash(Tail(bytes))

\* The section checksum_file reads, as it logs it (`@offset+size`): the size and
\* the offset it resolves before it opens the file.  A negative chunk_size counts
\* from the end of the file.
checksum_file_section(file_size, chunk_size) ==
    LET size == Min(Abs(chunk_size), file_size)
        offset0 == IF chunk_size < 0 THEN 0 - size ELSE 0
    IN  IF file_size = 0
          THEN [err |-> "ZeroDivisionError", offset |-> offset0, size |-> size]
          ELSE [err |-> "", offset |-> offset0 % file_size, size |-> size]

\* checksum_file(filename, chunk_size, offset=0): the digest of the `size` bytes
\* from `offset`, or of those up to the end of the file if it ends before.
checksum_file(data, chunk_size) ==
    The({ IF sec.err # "" THEN [err |-> sec.err, digest |-> Null]
          ELSE [err |-> "",
                digest |-> Hash(SubSeq(data, sec.offset + 1,
                                       Min(sec.offset + sec.size, Len(data))))]
          : sec \in {checksum_file_section(Len(data), chunk_size)} })

\* Tuples compared component by component, as Python compares tuples and SQLite
\* the columns of an ORDER BY.
RECURSIVE LexLess(_, _)
LexLess(a, b) ==
    IF a = <<>> \/ b = <<>> THEN FALSE
    ELSE IF Head(a) # Head(b) THEN Head(a) < Head(b)
    ELSE LexLess(Tail(a), Tail(b))

\* A stable sort of items [k |-> <<key, ...>>, v |-> element] by k: list.sort
\* keeps equal elements in their order, also with reverse=True.
RECURSIVE InsertSorted(_, _, _)
InsertSorted(x0, sorted0, reverse) ==
    The({ IF sorted = <<>> THEN <<x>>
          ELSE IF (IF reverse THEN LexLess(sorted[Len(sorted)].k, x.k)
                              ELSE LexLess(x.k, sorted[Len(sorted)].k))
            THEN Append(InsertSorted(x, SubSeq(sorted, 1, Len(sorted) - 1), reverse),
                        sorted[Len(sorted)])
            ELSE Append(sorted, x)
          : x \in {x0}, sorted \in {sorted0} })

RECURSIVE StableSort(_, _)
StableSort(items0, reverse) ==
    The({ IF items = <<>> THEN <<>>
          ELSE InsertSorted(items[Len(items)],
                            StableSort(SubSeq(items, 1, Len(items) - 1), reverse), reverse)
          : items \in {items0} })

\* itertools.groupby: the length of the run of equal keys that starts at index i.
RECURSIVE RunLength(_, _)
RunLength(ks, i) ==
    IF i + 1 <= Len(ks) /\ ks[i + 1] = ks[i] THEN 1 + RunLength(ks, i + 1) ELSE 1

(***************************************************************************)
(* FileMeta: the object made from a row, with its lazily computed digests. *)
(* n_checksums counts the calls of checksum_file and file_extents made     *)
(* for this object (the program keeps the totals _n_checksums and          *)
(* _n_file_extents); asked records the keys the sort has called.           *)
(***************************************************************************)
KeyNames == <<"checksum_beg", "checksum_end", "checksum_all", "extents_hash">>

FileMeta(path, row) ==
    [path |-> path, size |-> row.size, inode |-> row.inode, mtime |-> row.mtime,
     checksum_beg |-> row.checksum_beg, checksum_end |-> row.checksum_end,
     checksum_all |-> row.checksum_all, extents_hash |-> row.extents_hash,
     hashed_file |-> FALSE,
     n_checksums |-> [checksum_beg |-> 0, checksum_end |-> 0, checksum_all |-> 0,
                      extents_hash |-> 0],
     asked |-> {}]

\* One call of checksum_file for a FileMeta, whose digest goes to `field`;
\* self.stat() raises when the file is gone.
Checksum(fm, field, chunk_size) ==
    IF ~fsys[fm.path].exists THEN [fm |-> fm, err |-> "FileNotFoundError"]
    ELSE The({ IF r.err # "" THEN [fm |-> fm, err |-> r.err]
               ELSE [fm |-> [fm EXCEPT ![field] = r.digest, !.hashed_file = TRUE,
                                       !.n_checksums[field] = @ + 1],
                     err |-> ""]
               : r \in {checksum_file(fsys[fm.path].data, chunk_size)} })

\* A checksum_beg that reads the file whether or not the digest is known.
checksum_beg_unmemoized(fm) == Checksum(fm, "checksum_beg", checksum_size)

\* FileMeta.checksum_beg
checksum_beg(fm) ==
    IF fm.checksum_beg # Null THEN [fm |-> fm, err |-> ""]
    ELSE Checksum(fm, "checksum_beg", checksum_size)

\* FileMeta.checksum_end: a file of at most checksum_size bytes takes its head digest.
checksum_end(fm) ==
    IF fm.checksum_end # Null THEN [fm |-> fm, err |-> ""]
    ELSE IF fm.size <= checksum_size
      THEN The({ IF r.err # "" THEN r
                 ELSE [fm |-> [r.fm EXCEPT !.checksum_end = r.fm.checksum_beg], err |-> ""]
                 : r \in {checksum_beg(fm)} })
      ELSE Checksum(fm, "checksum_end", 0 - checksum_size)

\* FileMeta.checksum_all
checksum_all(fm) ==
    IF fm.checksum_all # Null THEN [fm |-> fm, err |-> ""]
    ELSE IF fm.size <= checksum_size
      THEN The({ IF r.err # "" THEN r
                 ELSE [fm |-> [r.fm EXCEPT !.checksum_all = r.fm.checksum_beg], err |-> ""]
                 : r \in {checksum_beg(fm)} })
      ELSE Checksum(fm, "checksum_all", fm.size)

\* FileMeta.extents_hash: the digest of the filefrag listing with the path removed;
\* for a file that is gone filefrag lists nothing and lines[1] raises.
extents_hash(fm) ==
    IF fm.extents_hash # Null THEN [fm |-> fm, err |-> ""]
    ELSE IF ~fsys[fm.path].exists THEN [fm |-> fm, err |-> "IndexError"]
    ELSE [fm |-> [fm EXCEPT !.extents_hash = fsys[fm.path].ext, !.hashed_file = TRUE,
                            !.n_checksums.extents_hash = @ + 1],
          err |-> ""]

\* FileMeta.stat: os.stat(path) the first time, the kept result afterwards; os.stat
\* raises when the file is gone.
stat(fm) ==
    IF fm.stat.called THEN [fm |-> fm, err |-> ""]
    ELSE IF ~stats[fm.path].exists THEN [fm |-> fm, err |-> "FileNotFoundError"]
    ELSE [fm |-> [fm EXCEPT !.stat = [called |-> TRUE,
                                      st_mtime_ns |-> stats[fm.path].st_mtime_ns,
                                      st_nlink |-> stats[fm.path].st_nlink]],
          err |-> ""]

\* The attributes for picking an original.  The object keeps under the getter's
\* name the value the getter returned for it.
pick_orig__mtime(fm) ==
    The({ IF r.err # "" THEN r
          ELSE [fm |-> [r.fm EXCEPT !.pick_orig__mtime = r.fm.stat.st_mtime_ns], err |-> ""]
          : r \in {stat(fm)} })

pick_orig__n_links(fm) ==
    The({ IF r.err # "" THEN r
          ELSE [fm |-> [r.fm EXCEPT !.pick_orig__n_links = r.fm.stat.st_nlink], err |-> ""]
          : r \in {stat(fm)} })

pick_orig__inode(fm) == [fm |-> [fm EXCEPT !.pick_orig__inode = fm.inode], err |-> ""]

pick_orig__path(fm) == [fm |-> [fm EXCEPT !.pick_orig__path = abspaths[fm.path]], err |-> ""]

\* key(fm), as the sort calls it: operator.methodcaller(key) in find_duplicates,
\* the attribute getter in pick_original.
CallKey(fm0, key) ==
    The({ CASE key = "checksum_beg" -> checksum_beg(fm)
            [] key = "checksum_end" -> checksum_end(fm)
            [] key = "checksum_all" -> checksum_all(fm)
            [] key = "extents_hash" -> extents_hash(fm)
            [] key = "pick_orig__mtime" -> pick_orig__mtime(fm)
            [] key = "pick_orig__n_links" -> pick_orig__n_links(fm)
            [] key = "pick_orig__inode" -> pick_orig__inode(fm)
            [] key = "pick_orig__path" -> pick_orig__path(fm)
          : fm \in {[fm0 EXCEPT !.asked = @ \cup {key}]} })

\* The keys of lst[i:stop] are computed in list order; an exception ends the sort.
RECURSIVE CallKeys(_, _, _, _)
CallKeys(st0, i, stop, key) ==
    The({ IF i >= stop \/ st.err # "" THEN st
          ELSE The({ CallKeys([lst |-> [st.lst EXCEPT ![i + 1] = r.fm], err |-> r.err],
                              i + 1, stop, key)
                     : r \in {CallKey(st.lst[i + 1], key)} })
          : st \in {st0} })

\* The objects of lst[start:stop] in the order of a stable sort by their key.
SortedSlice(lst, start, stop, key, reverse) ==
    The({ [i \in 1..(stop - start) |-> srt[i].v]
          : srt \in {StableSort([i \in 1..(stop - start) |->
                                   [k |-> <<lst[start + i][key]>>, v |-> lst[start + i]]],
                                reverse)} })

\* sort_slice(lst, start, stop, key, reverse): slc = lst[start:stop]; slc.sort(...);
\* lst[start:stop] = slc
sort_slice(st, start, stop, key, reverse) ==
    The({ IF st1.err # "" THEN st1
          ELSE [lst |-> SubSeq(st1.lst, 1, start)
                        \o SortedSlice(st1.lst, start, stop, key, reverse)
                        \o SubSeq(st1.lst, stop + 1, Len(st1.lst)),
                err |-> ""]
          : st1 \in {CallKeys(st, start, stop, key)} })

\* The first indexes of the runs of equal keys in ks, the keys of lst[start:stop].
GroupStarts(ks) ==
    SelectSeq([i \in 1..Len(ks) |-> i], LAMBDA i : i = 1 \/ ks[i] # ks[i - 1])

\* A recursive call that takes the whole slice again instead of the run.
GroupCallWholeSlice(call, ks, g) ==
    [keys |-> Tail(call.keys), reverses |-> Tail(call.reverses),
     start |-> call.start, stop |-> call.stop]

\* The recursive call of _multikey_sort for the run of ks that starts at index g.
GroupCall(call, ks, g) ==
    [keys |-> Tail(call.keys), reverses |-> Tail(call.reverses),
     start |-> call.start + g - 1, stop |-> call.start + g - 1 + RunLength(ks, g)]

\* A loop that sorts every run by the remaining keys, also a run of one element.
GroupCallsAll(lst, call) ==
    The({ The({ [j \in 1..Len(gs) |-> GroupCall(call, ks, gs[j])]
                : gs \in {GroupStarts(ks)} })
          : ks \in {[i \in 1..(call.stop - call.start) |->
                       lst[call.start + i][call.keys[1]]]} })

\* The loop over itertools.groupby(lst[start:stop], key=keys[0]) in _multikey_sort:
\* the recursive calls it makes, one for each run of more than one element.
GroupCalls(lst, call) ==
    The({ The({ [j \in 1..Len(gs) |-> GroupCall(call, ks, gs[j])]
                : gs \in {SelectSeq(GroupStarts(ks), LAMBDA g : RunLength(ks, g) > 1)} })
          : ks \in {[i \in 1..(call.stop - call.start) |->
                       lst[call.start + i][call.keys[1]]]} })

\* itools.groupby(lst[start:stop], key=keys[0]) calls the key of every element of
\* the slice once more.
GroupKeys(st, call) ==
    IF Len(call.keys) = 1 THEN st ELSE CallKeys(st, call.start, call.stop, call.keys[1])

\* _multikey_sort(lst, keys, reverses, start, stop): sort the slice by the first
\* key, then sort each run of equal first keys by the remaining keys.  calls is
\* the stack of calls still to run, the current one first; a call's recursive
\* calls run, in list order, before the calls that follow it.
RECURSIVE multikey_sort_(_, _)
multikey_sort_(st0, calls0) ==
    The({ IF calls = <<>> \/ st.err # "" THEN st
          ELSE The({ multikey_sort_(
                         st1,
                         (IF st1.err # "" \/ Len(Head(calls).keys) = 1 THEN <<>>
                          ELSE GroupCalls(st1.lst, Head(calls))) \o Tail(calls))
                     : st1 \in {GroupKeys(sort_slice(st, Head(calls).start, Head(calls).stop,
                                                     Head(calls).keys[1],
                                                     Head(calls).reverses[1]),
                                          Head(calls))} })
          : st \in {st0}, calls \in {calls0} })

\* multikey_sort(lst, keys, reverses, start, stop); Null stands for the default
\* None of start and stop, reverses = <<>> for the default None of reverses (as
\* for an empty tuple: `not reverses`).
multikey_sort(lst, keys, reverses, start, stop) ==
    IF keys = <<>> \/ lst = <<>> THEN [lst |-> lst, err |-> ""]
    ELSE multikey_sort_([lst |-> lst, err |-> ""],
                        <<[keys |-> keys,
                           reverses |-> IF reverses = <<>>
                                          THEN [i \in 1..Len(keys) |-> FALSE]
                                          ELSE reverses,
                           start |-> IF start = Null THEN 0 ELSE start,
                           stop |-> IF stop = Null THEN Len(lst) ELSE stop]>>)

\* The rows of tbl as FileMeta objects (fmeta_objs_from_records), in rowid order.
RECURSIVE RowObjects(_, _)
RowObjects(tbl, p) ==
    IF p \notin Paths THEN <<>>
    ELSE (IF tbl[p].present THEN <<FileMeta(p, tbl[p])>> ELSE <<>>) \o RowObjects(tbl, p + 1)

\* An upsert that updates size, inode and mtime and leaves the cached digests.
UpsertKeepDigests(tbl, p) ==
    IF ~tbl[p].present
      THEN [NoRow EXCEPT !.present = TRUE, !.size = Len(fsys[p].data),
                         !.inode = fsys[p].inode, !.mtime = fsys[p].mtime]
      ELSE [tbl[p] EXCEPT !.size = Len(fsys[p].data), !.inode = fsys[p].inode,
                          !.mtime = fsys[p].mtime]

\* An upsert that updates every stored path, changed or not.
UpsertAlways(tbl, p) ==
    [NoRow EXCEPT !.present = TRUE, !.size = Len(fsys[p].data), !.inode = fsys[p].inode,
                  !.mtime = fsys[p].mtime]

\* load_file_metadata_records, one record (size, inode, mtime, path) as `find`
\* prints it: insert a new path, update a changed one (the digests become null),
\* leave an unchanged one.
Upsert(tbl, p) ==
    LET record == <<Len(fsys[p].data), fsys[p].inode, fsys[p].mtime>>
        existing_info == <<tbl[p].size, tbl[p].inode, tbl[p].mtime>>
    IN  IF ~tbl[p].present
          THEN [NoRow EXCEPT !.present = TRUE, !.size = record[1], !.inode = record[2],
                             !.mtime = record[3]]
          ELSE IF existing_info # record
            THEN [NoRow EXCEPT !.present = TRUE, !.size = record[1], !.inode = record[2],
                               !.mtime = record[3]]
            ELSE tbl[p]

\* The object of path p in a list of FileMeta objects that holds one.
ObjectOf(files, p) == files[CHOOSE i \in 1..Len(files) : files[i].path = p]

\* A flush that writes the digests of the files with an extents digest only, the
\* members of a duplicate group.
FlushHashesOfDuplicates(tbl, files) ==
    [p \in Paths |->
       IF \E i \in 1..Len(files) : files[i].path = p /\ files[i].extents_hash # Null
         THEN The({ [tbl[p] EXCEPT !.checksum_beg = fm.checksum_beg,
                                   !.checksum_end = fm.checksum_end,
                                   !.checksum_all = fm.checksum_all,
                                   !.extents_hash = fm.extents_hash]
                    : fm \in {ObjectOf(files, p)} })
         ELSE tbl[p]]

\* _update_hashes_sql for every object of the size-class that hashed a file.
FlushHashes(tbl, files) ==
    [p \in Paths |->
       IF \E i \in 1..Len(files) : files[i].path = p /\ files[i].hashed_file
         THEN The({ [tbl[p] EXCEPT !.checksum_beg = fm.checksum_beg,
                                   !.checksum_end = fm.checksum_end,
                                   !.checksum_all = fm.checksum_all,
                                   !.extents_hash = fm.extents_hash]
                    : fm \in {ObjectOf(files, p)} })
         ELSE tbl[p]]

\* A gathering that groups on the size and the head and tail digests alone.
DupKeyNoFull(fm) == <<fm.size, fm.checksum_beg, fm.checksum_end>>

\* The groupby key of gather_duplicates: (f.size(), f.raw_checksums()).
DupKey(fm) == <<fm.size, fm.checksum_beg, fm.checksum_end, fm.checksum_all>>

\* The loop over groupby in gather_duplicates: the runs of more than one file.
DupGroups(files) ==
    The({ The({ [j \in 1..Len(gs) |-> SubSeq(files, gs[j], gs[j] + RunLength(ks, gs[j]) - 1)]
                : gs \in {SelectSeq(GroupStarts(ks), LAMBDA g : RunLength(ks, g) > 1)} })
          : ks \in {[i \in 1..Len(files) |-> DupKey(files[i])]} })

\* The rows gather_duplicates selects: those with head, tail and full digest.
SelectDuplicateFiles(tbl) ==
    SelectSeq(RowObjects(tbl, 1),
              LAMBDA f : f.checksum_beg # Null /\ f.checksum_end # Null
                         /\ f.checksum_all # Null)

\* order by size, checksum_beg, checksum_end, checksum_all, inode, extents_hash,
\* mtime, path
DuplicateOrder(f) ==
    <<f.size, f.checksum_beg, f.checksum_end, f.checksum_all, f.inode, f.extents_hash,
      f.mtime, f.path>>

\* gather_duplicates: the selected rows in order, grouped.
gather_duplicates(tbl) ==
    The({ DupGroups([i \in 1..Len(srt) |-> srt[i].v])
          : srt \in {The({ StableSort([i \in 1..Len(objs) |->
                                         [k |-> DuplicateOrder(objs[i]), v |-> objs[i]]],
                                      FALSE)
                           : objs \in {SelectDuplicateFiles(tbl)} })} })

NewFile(p) == [exists |-> TRUE, data |-> <<>>, inode |-> p, mtime |-> 0, ext |-> p]

\* An empty table and any files at the three paths.  The paths carry no meaning,
\* so the initial contents are taken up to a renaming of the paths.
InitStore ==
    /\ \E c \in [Paths -> 1..Len(ContentList)] :
         /\ \A p, q \in Paths : p < q => c[p] <= c[q]
         /\ fsys = [p \in Paths |-> [NewFile(p) EXCEPT !.data = ContentList[c[p]]]]
    /\ fsOps = 0
    /\ fmeta = [p \in Paths |-> NoRow]
    /\ committed = fmeta
    /\ fpc = "idle"
    /\ fexc = ""
    /\ cursor = <<>>
    /\ seen = [p \in Paths |-> NoObject]
    /\ dups = <<>>
    /\ scanLog = NoScan

\* The objects of a pass and the groups of a report do not outlive their command.
ForgetPass ==
    /\ fpc' = "idle"
    /\ fexc' = ""
    /\ seen' = [p \in Paths |-> NoObject]
    /\ dups' = <<>>

\* An inode number or an extent location that no file has had before.
FreshNumber(p, old) == IF fsys[p].exists THEN old + 10 ELSE p + 10 * (fsOps + 1)

\* Another program rewrites a file in place (new mtime) or replaces it by a file
\* with another inode.
FsWrite ==
    /\ fpc # "running"
    /\ fsOps < MaxFsOps
    /\ \E p \in Paths, c \in Contents, replace \in BOOLEAN :
         /\ (~fsys[p].exists => replace)
         /\ fsys' = [fsys EXCEPT ![p] =
                       [exists |-> TRUE, data |-> c,
                        inode |-> IF replace THEN FreshNumber(p, fsys[p].inode)
                                             ELSE fsys[p].inode,
                        mtime |-> IF replace THEN fsys[p].mtime ELSE fsys[p].mtime + 1,
                        ext |-> FreshNumber(p, fsys[p].ext)]]
    /\ fsOps' = fsOps + 1
    /\ ForgetPass
    /\ scanLog' = NoScan
    /\ UNCHANGED <<fmeta, committed, cursor, notStoreVars>>

\* Another program deletes a file.
FsUnlink ==
    /\ fpc # "running"
    /\ fsOps < MaxFsOps
    /\ \E p \in Paths :
         /\ fsys[p].exists
         /\ fsys' = [fsys EXCEPT ![p] = NoFile]
    /\ fsOps' = fsOps + 1
    /\ ForgetPass
    /\ scanLog' = NoScan
    /\ UNCHANGED <<fmeta, committed, cursor, notStoreVars>>

\* A scan that deletes the row of a path at which it finds no file.
ScanRowPruning(tbl, p) == IF fsys[p].exists THEN Upsert(tbl, p) ELSE NoRow

\* What a scan makes of the row of p: `find` prints a record for every file there
\* is, and the records are upserted; a path without a file has no record.
ScanRow(tbl, p) == IF fsys[p].exists THEN Upsert(tbl, p) ELSE tbl[p]

\* The command scan: load_file_metadata upserts a record for every file found.
Scan ==
    /\ fpc # "running"
    /\ fmeta' = [p \in Paths |-> ScanRow(fmeta, p)]
    /\ committed' = fmeta'
    /\ scanLog' =
         [n_inserts |-> Cardinality({p \in Paths : fsys[p].exists /\ ~fmeta[p].present}),
          n_updates |-> Cardinality({p \in Paths :
                                       /\ fsys[p].exists
                                       /\ fmeta[p].present
                                       /\ <<fmeta[p].size, fmeta[p].inode, fmeta[p].mtime>>
                                            # <<Len(fsys[p].data), fsys[p].inode,
                                                fsys[p].mtime>>})]
    /\ ForgetPass
    /\ UNCHANGED <<fsys, fsOps, cursor, notStoreVars>>

\* select ... from fmeta order by size asc: the rows as FileMeta objects.
SelectFilesBySize(tbl) ==
    The({ The({ [i \in 1..Len(srt) |-> srt[i].v]
                : srt \in {StableSort([i \in 1..Len(objs) |->
                                         [k |-> <<objs[i].size>>, v |-> objs[i]]], FALSE)} })
          : objs \in {RowObjects(tbl, 1)} })

\* find_duplicates up to the query: the cursor holds the rows ordered by size.
FindStart ==
    /\ fpc # "running"
    /\ cursor' = SelectFilesBySize(fmeta)
    /\ fpc' = "running"
    /\ fexc' = ""
    /\ seen' = [p \in Paths |-> NoObject]
    /\ dups' = <<>>
    /\ scanLog' = NoScan
    /\ UNCHANGED <<fsys, fsOps, fmeta, committed, notStoreVars>>

\* A pass that sorts every size-class, also one of a single file.
SortClassAlways(files) == multikey_sort(files, KeyNames, <<>>, Null, Null)

\* The body of the loop over size-classes: a class of one file is skipped.
SortClass(files) ==
    IF Len(files) = 1 THEN [lst |-> files, err |-> ""]
    ELSE multikey_sort(files, KeyNames, <<>>, Null, Null)

\* One turn of the loop of find_duplicates: the next size-class is taken from the
\* cursor, sorted, and the digests of the objects that hashed a file are written.
\* An exception leaves the pass and the connection rolls back.
FindGroup ==
    /\ fpc = "running"
    /\ cursor # <<>>
    /\ \E n \in {RunLength([i \in 1..Len(cursor) |-> cursor[i].size], 1)} :
       \E st \in {SortClass(SubSeq(cursor, 1, n))} :
         /\ seen' = [p \in Paths |->
                       IF \E i \in 1..n : st.lst[i].path = p
                         THEN ObjectOf(st.lst, p) ELSE seen[p]]
         /\ IF st.err # ""
              THEN /\ fpc' = "crashed"
                   /\ fexc' = st.err
                   /\ fmeta' = committed
                   /\ cursor' = <<>>
              ELSE /\ fmeta' = FlushHashes(fmeta, st.lst)
                   /\ cursor' = SubSeq(cursor, n + 1, Len(cursor))
                   /\ UNCHANGED <<fpc, fexc>>
    /\ UNCHANGED <<fsys, fsOps, committed, dups, scanLog, notStoreVars>>

\* The cursor is exhausted: find() leaves the `with` block and the connection commits.
FindEnd ==
    /\ fpc = "running"
    /\ cursor = <<>>
    /\ fpc' = "found"
    /\ committed' = fmeta
    /\ UNCHANGED <<fsys, fsOps, fmeta, fexc, cursor, seen, dups, scanLog, notStoreVars>>

\* report() reads the groups of gather_duplicates.
Gather ==
    /\ fpc # "running"
    /\ dups' = gather_duplicates(fmeta)
    /\ fpc' = IF fpc \in {"found", "crashed"} THEN "reported" ELSE fpc
    /\ UNCHANGED <<fsys, fsOps, fmeta, committed, fexc, cursor, seen, scanLog, notStoreVars>>

NextStore ==
    \/ FsWrite
    \/ FsUnlink
    \/ Scan
    \/ FindStart
    \/ FindGroup
    \/ FindEnd
    \/ Gather

(***************************************************************************)
(* Part III: the command report for one group of duplicates:               *)
(* organize_duplicates picks the original and sorts the other members into *)
(* hard links, reflinks and copies; report_script prints the instructions. *)
(***************************************************************************)

InodeNumbers == {1, 2}
Mtimes == {0, 1}
LinkCounts == {1, 2}
ExtentDigests == {1, 2}

NoStat == [exists |-> FALSE, st_mtime_ns |-> 0, st_nlink |-> 0]
NoGroup == [orig |-> NoObject, hard_links |-> <<>>, ref_links |-> <<>>, copies |-> <<>>]

\* The content every member of the group has: a group is a run of rows equal in
\* size, head, tail and full digest.
GroupData == <<0, 0, 0>>

\* The row of a member of the group as find left it, all digests known.
DuplicateRow(inode, mtime, ext) ==
    [present |-> TRUE, size |-> Len(GroupData), inode |-> inode, mtime |-> mtime,
     checksum_beg |-> checksum_file(GroupData, checksum_size).digest,
     checksum_end |-> checksum_file(GroupData, 0 - checksum_size).digest,
     checksum_all |-> checksum_file(GroupData, Len(GroupData)).digest,
     extents_hash |-> ext]

\* The FileMeta object of a row, with what report uses of it besides the digests:
\* the kept result of os.stat (_stat, _called_stat) and the values the attribute
\* getters returned.
ReportMeta(path, row) ==
    FileMeta(path, row)
      @@ [stat |-> [called |-> FALSE, st_mtime_ns |-> 0, st_nlink |-> 0],
          pick_orig__mtime |-> Null, pick_orig__n_links |-> Null,
          pick_orig__inode |-> Null, pick_orig__path |-> Null]

\* A policy that does not look at the path.
pick_original_keys_without_path ==
    [keys |-> <<"pick_orig__mtime", "pick_orig__n_links", "pick_orig__inode">>,
     reverses |-> <<FALSE, TRUE, FALSE>>]

\* The default policy of main_api: the attribute getters and their reverses.
pick_original_keys ==
    [keys |-> <<"pick_orig__mtime", "pick_orig__n_links", "pick_orig__inode",
                "pick_orig__path">>,
     reverses |-> <<FALSE, TRUE, FALSE, FALSE>>]

\* pick_original(fmetas) as mk_pick_original makes it: sort a copy of the list by
\* the keys and return its first element.
pick_original(fmetas) ==
    The({ [orig |-> IF st.err = "" THEN st.lst[1] ELSE NoObject, lst |-> st.lst,
           err |-> st.err]
          : st \in {multikey_sort(fmetas, pick_original_keys.keys,
                                  pick_original_keys.reverses, Null, Null)} })

\* A loop that does not pass over the original.
ClassifyOriginalToo(dup, orig) ==
    IF dup.inode = orig.inode THEN "hard_links"
    ELSE IF extents_hash(dup).fm.extents_hash = extents_hash(orig).fm.extents_hash
      THEN "ref_links"
    ELSE "copies"

\* A loop that compares the extents before the inodes.
ClassifyExtentsFirst(dup, orig) ==
    IF dup.path = orig.path THEN "orig"
    ELSE IF extents_hash(dup).fm.extents_hash = extents_hash(orig).fm.extents_hash
      THEN "ref_links"
    ELSE IF dup.inode = orig.inode THEN "hard_links"
    ELSE "copies"

\* The branch the loop of organize_duplicates takes for dup.  `dup is orig` is the
\* identity of objects; the objects of a group have different paths.
Classify(dup, orig) ==
    IF dup.path = orig.path THEN "orig"
    ELSE IF dup.inode = orig.inode THEN "hard_links"
    ELSE IF extents_hash(dup).fm.extents_hash = extents_hash(orig).fm.extents_hash
      THEN "ref_links"
    ELSE "copies"

\* The object of the list that has the given path.
ObjectAt(lst, path) == lst[CHOOSE i \in 1..Len(lst) : lst[i].path = path]

\* organize_duplicates(duplicates, pick_original, cli_paths)
organize_duplicates(duplicates0) ==
    The({ IF r.err # "" THEN [result |-> NoGroup, err |-> r.err]
          ELSE The({ IF \A i \in 1..Len(objs) : Classify(objs[i], r.orig) = "orig"
                       THEN [result |-> NoGroup, err |-> "AssertionError"]
                       ELSE [result |->
                               [orig |-> r.orig,
                                hard_links |-> SelectSeq(objs, LAMBDA d :
                                                 Classify(d, r.orig) = "hard_links"),
                                ref_links |-> SelectSeq(objs, LAMBDA d :
                                                 Classify(d, r.orig) = "ref_links"),
                                copies |-> SelectSeq(objs, LAMBDA d :
                                                 Classify(d, r.orig) = "copies")],
                             err |-> ""]
                     : objs \in {[i \in 1..Len(duplicates0) |-> ObjectAt(r.lst, duplicates0[i].path)]} })
          : r \in {pick_original(duplicates0)} })

\* shlex.quote(path): the path as one word of the shell.
shlex_quote(path) == <<"'", path, "'">>

\* The first thing report_script prints: the script header.
HeaderLine == [cmd |-> "header", orig |-> <<>>, copy |-> <<>>, note |-> <<>>]

\* Instructions for the links of the original as well as for its copies.
InstructedLinksToo(orgd) == orgd.hard_links \o orgd.ref_links \o orgd.copies

\* The members report_script prints an instruction for: `dups`, the copies.
Instructed(orgd) == orgd.copies

\* What report_script prints for one organized group: nothing if there are no
\* copies; else a comment naming the original, an instruction for each copy in
\* the order of (mtime, inode, path), and an empty line.
report_script(orgd) ==
    The({ IF cps = <<>> THEN <<>>
          ELSE <<[cmd |-> "#", orig |-> shlex_quote(orgd.orig.path), copy |-> <<>>,
                  note |-> <<orgd.orig.size, orgd.orig.mtime, orgd.orig.inode,
                             checksum_all(orgd.orig).fm.checksum_all>>]>>
               \o The({ [i \in 1..Len(srt) |->
                           [cmd |-> "dedup", orig |-> shlex_quote(orgd.orig.path),
                            copy |-> shlex_quote(srt[i].v.path),
                            note |-> <<srt[i].v.mtime, srt[i].v.inode>>]]
                        : srt \in {StableSort([i \in 1..Len(cps) |->
                                                 [k |-> <<cps[i].mtime, cps[i].inode,
                                                          cps[i].path>>,
                                                  v |-> cps[i]]], FALSE)} })
               \o <<[cmd |-> "", orig |-> <<>>, copy |-> <<>>, note |-> <<>>]>>
          : cps \in {Instructed(orgd)} })

\* The orderings of one, two or three of the paths.
RECURSIVE Orderings(_)
Orderings(S) ==
    {<<>>} \cup UNION {{<<p>> \o o : o \in Orderings(S \ {p})} : p \in S}

\* A group of rows with all digests known, handed over in some order; the files
\* as they are now (one of them may be gone); and the paths, where the last may be
\* a second spelling of the first (as ./a is of a), which then names the same file.
InitReport ==
    \E order \in Orderings(Paths) \ {<<>>} :
    \E st \in [Paths -> [exists : BOOLEAN, st_mtime_ns : Mtimes \cup {0},
                         st_nlink : LinkCounts \cup {0}]] :
    \E ino \in [Paths -> InodeNumbers], ext \in [Paths -> ExtentDigests] :
    \E ab \in {[p \in Paths |-> p], [p \in Paths |-> IF p = 3 THEN 1 ELSE p]} :
      LET members == {order[i] : i \in 1..Len(order)}
      IN  /\ \A p \in Paths :
               /\ st[p].exists => (st[p].st_mtime_ns \in Mtimes /\ st[p].st_nlink \in LinkCounts)
               /\ ~st[p].exists => st[p] = NoStat
               /\ p \notin members => (st[p] = NoStat /\ ino[p] = 1 /\ ext[p] = 1)
          /\ Cardinality({p \in members : ~st[p].exists}) <= 1
          /\ ab[3] = 1 => ({1, 3} \subseteq members /\ st[3] = st[1] /\ st[1].exists
                           /\ ino[3] = ino[1] /\ ext[3] = ext[1])
          /\ stats = st
          /\ abspaths = ab
          /\ duplicates = [i \in 1..Len(order) |->
                             ReportMeta(order[i],
                                        DuplicateRow(ino[order[i]], st[order[i]].st_mtime_ns,
                                                     ext[order[i]]))]
          /\ organized = NoGroup
          /\ script = <<HeaderLine>>
          /\ rpc = "gathered"
          /\ rexc = ""

\* The map over the groups in report: organize_duplicates for the group.
Organize ==
    /\ rpc = "gathered"
    /\ \E r \in {organize_duplicates(duplicates)} :
         /\ organized' = r.result
         /\ rexc' = r.err
         /\ rpc' = IF r.err = "" THEN "organized" ELSE "crashed"
    /\ UNCHANGED <<stats, abspaths, duplicates, script, notReportVars>>

\* The body of the loop of report_script for the organized group.
ReportScript ==
    /\ rpc = "organized"
    /\ script' = script \o report_script(organized)
    /\ rpc' = "reported"
    /\ UNCHANGED <<stats, abspaths, duplicates, organized, rexc, notReportVars>>

NextReport ==
    \/ Organize
    \/ ReportScript

(***************************************************************************)
(* Part IV: checksum_file called for the head, the tail and the full       *)
(* digest of a file, as FileMeta calls it.                                 *)
(***************************************************************************)

MaxFileSize == 3
MaxRegion == 3

RECURSIVE ByteStrings(_)
ByteStrings(n) ==
    IF n = 0 THEN {<<>>}
    ELSE ByteStrings(n - 1) \cup {Append(b, x) : b \in ByteStrings(n - 1), x \in {0, 1}}

NoResult == [err |-> "", offset |-> 0, size |-> 0, digest |-> Null]

InitChecksum ==
    /\ cf_data \in ByteStrings(MaxFileSize)
    /\ cf_region \in 1..MaxRegion
    /\ cf_call = ""
    /\ cf_result = NoResult

\* checksum_file(path, chunk_size): the section it resolves and the digest.
ChecksumCall(chunk_size) ==
    \E sec \in {checksum_file_section(Len(cf_data), chunk_size)} :
    \E r \in {checksum_file(cf_data, chunk_size)} :
      cf_result' = [err |-> r.err, offset |-> sec.offset, size |-> sec.size,
                    digest |-> r.digest]

\* checksum_beg: chunk_size=FileMeta.checksum_size
HeadDigest ==
    /\ cf_call = ""
    /\ cf_call' = "head"
    /\ ChecksumCall(cf_region)
    /\ UNCHANGED <<cf_data, cf_region, notChecksumVars>>

\* checksum_end: chunk_size=-FileMeta.checksum_size
TailDigest ==
    /\ cf_call = ""
    /\ cf_call' = "tail"
    /\ ChecksumCall(0 - cf_region)
    /\ UNCHANGED <<cf_data, cf_region, notChecksumVars>>

\* checksum_all: chunk_size=self.size()
FullDigest ==
    /\ cf_call = ""
    /\ cf_call' = "full"
    /\ ChecksumCall(Len(cf_data))
    /\ UNCHANGED <<cf_data, cf_region, notChecksumVars>>

NextChecksum ==
    \/ HeadDigest
    \/ TailDigest
    \/ FullDigest

(***************************************************************************)
(* Part V: main_args and main_api.  An option is [given, has_value, val];  *)
(* a dedup setting is the list of the words a space separates, a size the  *)
(* list of its characters.                                                 *)
(***************************************************************************)

MaxCommands == 2
MaxSizeLen == 2

OrigPlaceholder == "\"${orig}\""
CopyPlaceholder == "\"${copy}\""

NoOption == [given |-> FALSE, has_value |-> FALSE, val |-> <<>>]
Option(val) == [given |-> TRUE, has_value |-> TRUE, val |-> val]
OptionWithoutValue == [given |-> TRUE, has_value |-> FALSE, val |-> <<>>]

\* The triples the interpreters return, and a return of None.
Ok(value) == [none |-> FALSE, ok |-> TRUE, value |-> value, message |-> ""]
NotOk(message) == [none |-> FALSE, ok |-> FALSE, value |-> <<>>, message |-> message]
ReturnsNone == [none |-> TRUE, ok |-> FALSE, value |-> <<>>, message |-> ""]

\* The names of the commands in the order of the OrderedDict.  First a table
\* that has report first.
commands_report_first == <<"report", "scan", "find">>

commands_ == <<"scan", "find", "report">>

\* The keys of _dedup_style_to_shell_cmd
dedup_style_to_shell_cmd == {"hardlink", "softlink", "reflink", "btrfs"}

\* str.lower for the command names of the model.
Lower(word) == IF word = "FIND" THEN "find" ELSE word

RangeOf(seq) == {seq[i] : i \in 1..Len(seq)}

\* interpret_value_required(vals): the last value, if there is one.
interpret_value_required(opt) ==
    IF opt.has_value THEN Ok(opt.val) ELSE NotOk("No value given")

\* int(size): the number a string of decimal digits writes; int raises ValueError
\* for a string that is not one.
Digits == <<"0", "1", "2", "3", "4", "5", "6", "7", "8", "9">>
DigitValue(c) == (CHOOSE d \in 1..Len(Digits) : Digits[d] = c) - 1
IsInt(chars) == chars # <<>> /\ \A i \in 1..Len(chars) : chars[i] \in RangeOf(Digits)
RECURSIVE IntOf(_)
IntOf(chars) ==
    IF chars = <<>> THEN 0
    ELSE 10 * IntOf(SubSeq(chars, 1, Len(chars) - 1)) + DigitValue(chars[Len(chars)])

\* interpret_size(size): the try returns the triple; after an exception the
\* except clause passes, the else clause is not run, and the function ends
\* without a return.
interpret_size(size) ==
    IF IsInt(size) THEN Ok(IntOf(size)) ELSE ReturnsNone

\* interpret_dedup(dedup): a known style, or a command (it has a space) with
\* both placeholders.
interpret_dedup(dedup) ==
    IF Len(dedup) = 1 /\ dedup[1] \in dedup_style_to_shell_cmd THEN Ok(dedup)
    ELSE IF Len(dedup) = 1 THEN NotOk("Unrecognized deduplication style")
    ELSE IF OrigPlaceholder \notin RangeOf(dedup) THEN NotOk("No orig placeholder")
    ELSE IF CopyPlaceholder \notin RangeOf(dedup) THEN NotOk("No copy placeholder")
    ELSE Ok(dedup)

\* compose_interpreters(value, interpret_value_required, second): unpacking the
\* triple of an interpreter that returned None raises TypeError.
compose_interpreters(opt, second) ==
    The({ IF ~r1.ok THEN [exc |-> "", ok |-> FALSE, value |-> <<>>]
          ELSE The({ IF r2.none THEN [exc |-> "TypeError", ok |-> FALSE, value |-> <<>>]
                     ELSE [exc |-> "", ok |-> r2.ok, value |-> r2.value]
                     : r2 \in {IF second = "interpret_size" THEN interpret_size(r1.value)
                               ELSE interpret_dedup(r1.value)} })
          : r1 \in {interpret_value_required(opt)} })

\* The loop of main_args over the options given, in the order `order`: the
\* exception it raises ("" if none).
RECURSIVE ValidateOptions(_, _)
ValidateOptions(args, order) ==
    IF order = <<>> THEN ""
    ELSE The({ IF ~opt.given THEN ValidateOptions(args, Tail(order))
               ELSE The({ IF r.exc # "" THEN r.exc
                          ELSE IF ~r.ok THEN "CliUsageError"
                          ELSE ValidateOptions(args, Tail(order))
                          : r \in {compose_interpreters(
                                     opt, IF Head(order) = "min_size" THEN "interpret_size"
                                          ELSE "interpret_dedup")} })
               : opt \in {args[Head(order)]} })

\* main_api's default min_file_size: 1 MiB
DefaultMinFileSize == 1048576

\* main_args up to the call of main_api: the exception it raises, or the keyword
\* arguments.  kwargs has `commands` only if commands were given, and `dedup`
\* only if the option was; main_api's defaults are all commands and hardlink.
main_args(args, order) ==
    The({ IF RangeOf(commands) \ RangeOf(commands_) # {} THEN [exc |-> "CliUsageError"]
          ELSE The({ IF exc # "" THEN [exc |-> exc]
                     ELSE IF ~args.paths_ok THEN [exc |-> "CliError"]
                     ELSE [exc |-> "",
                           commands |-> IF commands # <<>> THEN commands ELSE commands_,
                           dedup |-> IF args.dedup.given THEN args.dedup.val
                                     ELSE <<"hardlink">>,
                           min_file_size |-> IF args.min_size.given
                                               THEN IntOf(args.min_size.val)
                                               ELSE DefaultMinFileSize]
                     : exc \in {ValidateOptions(args, order)} })
          : commands \in {[i \in 1..Len(args.commands) |-> Lower(args.commands[i])]} })

\* What a command does when it runs to its end.
EffectsOf(cmd) ==
    CASE cmd = "scan" -> {"scan", "store write"}
      [] cmd = "find" -> {"checksum", "store write"}
      [] cmd = "report" -> {"script output"}

\* The position in _commands of the next command to run: the first at or after
\* `from` whose name is among `commands`; Len(_commands) + 1 if there is none.
NextCommand(from, commands) ==
    IF \E i \in from..Len(commands_) : commands_[i] \in RangeOf(commands)
      THEN CHOOSE i \in from..Len(commands_) :
             /\ commands_[i] \in RangeOf(commands)
             /\ \A j \in from..(i - 1) : commands_[j] \notin RangeOf(commands)
      ELSE Len(commands_) + 1

RECURSIVE SeqsUpTo(_, _)
SeqsUpTo(S, n) ==
    IF n = 0 THEN {<<>>}
    ELSE SeqsUpTo(S, n - 1) \cup {Append(q, x) : q \in SeqsUpTo(S, n - 1), x \in S}

CommandWords == {"scan", "find", "report", "FIND", "frob"}
DedupSettings ==
    {<<"hardlink">>, <<"frob">>, <<"cp", OrigPlaceholder, CopyPlaceholder>>,
     <<"cp", OrigPlaceholder>>, <<"cp", CopyPlaceholder>>, <<"cp", "x">>}
SizeTexts == SeqsUpTo({"1", "2", "k"}, MaxSizeLen)

\* A run from the command line with any commands and options, or a call of
\* main_api with any commands and dedup argument (and sizes that are numbers).
InitMain ==
    /\ m_entry \in {"cli", "api"}
    /\ m_args \in [commands : SeqsUpTo(CommandWords, MaxCommands),
                   dedup : {NoOption, OptionWithoutValue} \cup {Option(d) : d \in DedupSettings},
                   min_size : {NoOption, OptionWithoutValue}
                                \cup {Option(t) : t \in SizeTexts},
                   paths_ok : BOOLEAN]
    /\ m_entry = "api" => (/\ m_args.min_size = NoOption
                           /\ m_args.dedup # OptionWithoutValue
                           /\ m_args.paths_ok)
    /\ m_kwargs = IF m_entry = "cli"
                    THEN [commands |-> <<>>, dedup |-> <<>>, min_file_size |-> Null]
                    ELSE [commands |-> m_args.commands,
                          dedup |-> IF m_args.dedup.given THEN m_args.dedup.val
                                    ELSE <<"hardlink">>,
                          min_file_size |-> DefaultMinFileSize]
    /\ m_pc = IF m_entry = "cli" THEN "args" ELSE "api"
    /\ m_next = 1
    /\ m_running = ""
    /\ m_calls = <<>>
    /\ m_effects = {}
    /\ m_exc = ""

\* main_args: the options are validated in the order in which the parser of the
\* command line hands them over, then main_api is called.
MainArgs ==
    /\ m_pc = "args"
    /\ \E order \in {<<"min_size", "dedup">>, <<"dedup", "min_size">>} :
       \E r \in {main_args(m_args, order)} :
         IF r.exc # ""
           THEN /\ m_pc' = "raised"
                /\ m_exc' = r.exc
                /\ UNCHANGED m_kwargs
           ELSE /\ m_pc' = "api"
                /\ m_kwargs' = [commands |-> r.commands, dedup |-> r.dedup,
                                 min_file_size |-> r.min_file_size]
                /\ UNCHANGED m_exc
    /\ UNCHANGED <<m_entry, m_args, m_next, m_running, m_calls, m_effects, notMainVars>>

\* The loop of main_api calls the next command that is among `commands`.  report
\* interprets dedup first and raises ValueError if it is not ok.
CallCommand ==
    /\ m_pc = "api"
    /\ m_running = ""
    /\ \E i \in {NextCommand(m_next, m_kwargs.commands)} :
         /\ i <= Len(commands_)
         /\ m_next' = i + 1
         /\ IF commands_[i] = "report" /\ ~interpret_dedup(m_kwargs.dedup).ok
              THEN /\ m_calls' = m_calls \o <<[cmd |-> commands_[i], event |-> "call"],
                                             [cmd |-> commands_[i], event |-> "raise"]>>
                   /\ m_pc' = "raised"
                   /\ m_exc' = "ValueError"
                   /\ UNCHANGED m_running
              ELSE /\ m_calls' = Append(m_calls, [cmd |-> commands_[i], event |-> "call"])
                   /\ m_running' = commands_[i]
                   /\ UNCHANGED <<m_pc, m_exc>>
    /\ UNCHANGED <<m_entry, m_args, m_kwargs, m_effects, notMainVars>>

\* The command does its work and returns.
ReturnCommand ==
    /\ m_pc = "api"
    /\ m_running # ""
    /\ m_effects' = m_effects \cup EffectsOf(m_running)
    /\ m_calls' = Append(m_calls, [cmd |-> m_running, event |-> "return"])
    /\ m_running' = ""
    /\ UNCHANGED <<m_entry, m_args, m_kwargs, m_pc, m_next, m_exc, notMainVars>>

\* The command raises before it has done anything (the store cannot be opened,
\* `find` is not installed): the exception leaves main_api.
RaiseCommand ==
    /\ m_pc = "api"
    /\ m_running # ""
    /\ m_calls' = Append(m_calls, [cmd |-> m_running, event |-> "raise"])
    /\ m_running' = ""
    /\ m_pc' = "raised"
    /\ m_exc' = "Exception"
    /\ UNCHANGED <<m_entry, m_args, m_kwargs, m_next, m_effects, notMainVars>>

\* The loop has passed the last command: main_api logs the totals and returns.
MainDone ==
    /\ m_pc = "api"
    /\ m_running = ""
    /\ NextCommand(m_next, m_kwargs.commands) > Len(commands_)
    /\ m_pc' = "done"
    /\ UNCHANGED <<m_entry, m_args, m_kwargs, m_next, m_running, m_calls, m_effects, m_exc,
                   notMainVars>>

NextMain ==
    \/ MainArgs
    \/ CallCommand
    \/ ReturnCommand
    \/ RaiseCommand
    \/ MainDone

(***************************************************************************)
(* Part VI: the command find in one process while another program changes  *)
(* files and another process runs the command scan on the same store.      *)
(* SQLite lets the scan commit only while the connection of the pass holds *)
(* no lock: the pass holds a shared lock while its select has rows left,   *)
(* and a reserved lock from its first update to its commit.                *)
(***************************************************************************)

\* The connection of the pass holds a lock on the store.
PassHoldsLock == fpc = "running" /\ (cursor # <<>> \/ r_txn)

\* find_duplicates up to the query.
RaceFindStart ==
    /\ fpc # "running"
    /\ cursor' = SelectFilesBySize(fmeta)
    /\ fpc' = "running"
    /\ fexc' = ""
    /\ seen' = [p \in Paths |-> NoObject]
    /\ r_sorted' = <<>>
    /\ r_txn' = FALSE
    /\ UNCHANGED <<fsys, fsOps, fmeta, committed, dups, scanLog, notPassVars>>

\* The loop of find_duplicates takes the next size-class from the cursor and
\* sorts it, which computes digests of the files as they are now.
RaceSort ==
    /\ fpc = "running"
    /\ cursor # <<>>
    /\ r_sorted = <<>>
    /\ \E n \in {RunLength([i \in 1..Len(cursor) |-> cursor[i].size], 1)} :
       \E st \in {SortClass(SubSeq(cursor, 1, n))} :
         /\ seen' = [p \in Paths |->
                       IF \E i \in 1..n : st.lst[i].path = p
                         THEN ObjectOf(st.lst, p) ELSE seen[p]]
         /\ IF st.err # ""
              THEN /\ fpc' = "crashed"
                   /\ fexc' = st.err
                   /\ fmeta' = committed
                   /\ cursor' = <<>>
                   /\ r_txn' = FALSE
                   /\ UNCHANGED r_sorted
              ELSE /\ r_sorted' = st.lst
                   /\ cursor' = SubSeq(cursor, n + 1, Len(cursor))
                   /\ UNCHANGED <<fpc, fexc, fmeta, r_txn>>
    /\ UNCHANGED <<fsys, fsOps, committed, dups, scanLog, notPassVars>>

\* The loop writes the digests of the objects that hashed a file.
RaceFlush ==
    /\ fpc = "running"
    /\ r_sorted # <<>>
    /\ fmeta' = FlushHashes(fmeta, r_sorted)
    /\ r_txn' = (r_txn \/ \E i \in 1..Len(r_sorted) : r_sorted[i].hashed_file)
    /\ r_sorted' = <<>>
    /\ UNCHANGED <<fsys, fsOps, committed, fpc, fexc, cursor, seen, dups, scanLog, notPassVars>>

\* The cursor is exhausted and the last class flushed: the connection commits.
RaceFindEnd ==
    /\ fpc = "running"
    /\ cursor = <<>>
    /\ r_sorted = <<>>
    /\ fpc' = "found"
    /\ committed' = fmeta
    /\ r_txn' = FALSE
    /\ UNCHANGED <<fsys, fsOps, fmeta, fexc, cursor, seen, dups, scanLog, r_sorted,
                   notPassVars>>

\* Another program rewrites a file in place, at any time.
RaceFsWrite ==
    /\ fsOps < MaxFsOps
    /\ \E p \in Paths, c \in Contents :
         /\ fsys[p].exists
         /\ fsys' = [fsys EXCEPT ![p] =
                       [exists |-> TRUE, data |-> c, inode |-> fsys[p].inode,
                        mtime |-> fsys[p].mtime + 1,
                        ext |-> FreshNumber(p, fsys[p].ext)]]
    /\ fsOps' = fsOps + 1
    /\ UNCHANGED <<fmeta, committed, fpc, fexc, cursor, seen, dups, scanLog, raceVars,
                   notPassVars>>

\* The command scan in another process upserts a record for every file and
\* commits, which it can while the pass holds no lock.
RaceScan ==
    /\ ~PassHoldsLock
    /\ fmeta' = [p \in Paths |-> ScanRow(fmeta, p)]
    /\ committed' = fmeta'
    /\ UNCHANGED <<fsys, fsOps, fpc, fexc, cursor, seen, dups, scanLog, raceVars, notPassVars>>

NextRace ==
    \/ RaceFindStart
    \/ RaceSort
    \/ RaceFlush
    \/ RaceFindEnd
    \/ RaceFsWrite
    \/ RaceScan

(***************************************************************************)
(* Part VII: LineTokenizer of src/sysisys/timesheet.py.  A text is a       *)
(* sequence of characters; a pattern is a character class with a repeat    *)
(* count, matched greedily at a position as re's pattern.match(line, idx)  *)
(* does.                                                                   *)
(***************************************************************************)

MaxText == 3
\* Turns of the inner loop a run may take: one more than a text has characters,
\* so that a run that does not advance is seen not to.
MaxTurns == MaxText + 1

Chars == {"a", " ", "~", "\n"}
Texts == SeqsUpTo(Chars, MaxText)
Filenames == {"<str>", "None"}

\* min(S)
MinOf(S) == CHOOSE x \in S : \A y \in S : x <= y

\* str.splitlines(keepends=True): the lines of a text, each with its line end.
RECURSIVE splitlines(_)
splitlines(text) ==
    IF text = <<>> THEN <<>>
    ELSE LET ends == {i \in 1..Len(text) : text[i] = "\n"}
             n == IF ends = {} THEN Len(text) ELSE MinOf(ends)
         IN  <<SubSeq(text, 1, n)>> \o splitlines(SubSeq(text, n + 1, Len(text)))

\* "".join(lines)
RECURSIVE Join(_)
Join(lines) == IF lines = <<>> THEN <<>> ELSE Head(lines) \o Join(Tail(lines))

\* The patterns of the model: [a]+, [ \n]+, [a~] and [ ]*.
\* Each has a constructor of its own, known by the kind of token it makes.
letters_pattern == [kind |-> "w", class |-> {"a"}, min |-> 1, many |-> TRUE]
whitespace_pattern == [kind |-> "s", class |-> {" ", "\n"}, min |-> 1, many |-> TRUE]
printable_pattern == [kind |-> "p", class |-> {"a", "~"}, min |-> 1, many |-> FALSE]
spaces_pattern == [kind |-> "o", class |-> {" "}, min |-> 0, many |-> TRUE]
Patterns == {letters_pattern, whitespace_pattern, printable_pattern, spaces_pattern}

\* A pattern with its constructor or with None.
PatternConstructorPairs ==
    UNION {{[pattern |-> p, constructor |-> c] : c \in {p.kind, "None"}} : p \in Patterns}

\* The tokenizers of the model: one pair, or two pairs in either order.
PatternLists ==
    {<<p>> : p \in PatternConstructorPairs}
      \cup {<<p, q>> : p \in PatternConstructorPairs, q \in PatternConstructorPairs}

\* How many characters of the class follow position idx (0-based) of the line.
ClassRun(class, line, idx) ==
    LET stops == {i \in (idx + 1)..Len(line) : line[i] \notin class}
    IN  IF stops = {} THEN Len(line) - idx ELSE MinOf(stops) - 1 - idx

\* match.end() of pattern.match(line, idx), Null if there is no match.
MatchEnd(pattern, line, idx) ==
    LET r == ClassRun(pattern.class, line, idx)
        n == IF pattern.many THEN r ELSE Min(r, 1)
    IN  IF n >= pattern.min THEN idx + n ELSE Null

\* The variant that takes the last of the patterns that match.
LastMatch(patterns, line, idx) ==
    LET hits == {i \in 1..Len(patterns) : MatchEnd(patterns[i].pattern, line, idx) # Null}
    IN  IF hits = {} THEN 0 ELSE CHOOSE i \in hits : \A j \in hits : j <= i

\* The loop over self._patterns with its break: the index of the first pattern
\* that matches at idx, 0 if none does.
FirstMatch(patterns, line, idx) ==
    LET hits == {i \in 1..Len(patterns) : MatchEnd(patterns[i].pattern, line, idx) # Null}
    IN  IF hits = {} THEN 0 ELSE MinOf(hits)

\* What a constructor or a handler is called with, kept by the token.
Token(kind, text, filename, line, column) ==
    [kind |-> kind, text |-> text, filename |-> filename, line |-> line, column |-> column]

NoToken == Token("None", <<>>, "", 0, 0)
StopIterationToken == Token("StopIteration", <<>>, "", 0, 0)
NoParseError == [type |-> "", filename |-> "", line |-> 0, column |-> 0, text |-> <<>>]

\* What a handler does: the (token, length) it returns or the exception it raises.
Returns(token, length) == [token |-> token, length |-> length, raises |-> NoParseError]
Raises(type, text, filename, line, column) ==
    [token |-> NoToken, length |-> 0,
     raises |-> [type |-> type, filename |-> filename, line |-> line, column |-> column,
                 text |-> text]]

quit(text, filename, line, column) == Returns(StopIterationToken, 0)

\* The variant of skip_char that skips nothing.
skip_nothing(text, filename, line, column) == Returns(NoToken, 0)

skip_char(text, filename, line, column) == Returns(NoToken, 1)

skip_line(text, filename, line, column) == Returns(NoToken, Len(text))

\* The variant of raise_error that reports the 0-based position.
raise_error_zero_based(text, filename, line, column) ==
    Raises("ParseError", text, filename, line, column - 1)

raise_error(text, filename, line, column) == Raises("ParseError", text, filename, line, column)

\* The handler function of the tests: a token of the leading run of unknown
\* characters and its length; its re.match is None on any other text.
mk_unknown(text, filename, line, column) ==
    LET n == ClassRun({"~"}, text, 0)
    IN  IF n = 0 THEN Raises("TypeError", <<>>, "", 0, 0)
        ELSE Returns(Token("?", SubSeq(text, 1, n), "", 0, 0), n)

NoMatchActions == {"quit", "skip_char", "skip_line", "raise_error", "mk_unknown"}

\* self._no_match(text, filename, line, column)
no_match(handler, text, filename, line, column) ==
    CASE handler = "quit" -> quit(text, filename, line, column)
      [] handler = "skip_char" -> skip_char(text, filename, line, column)
      [] handler = "skip_line" -> skip_line(text, filename, line, column)
      [] handler = "raise_error" -> raise_error(text, filename, line, column)
      [] handler = "mk_unknown" -> mk_unknown(text, filename, line, column)

\* line[idx:]
From(line, idx) == SubSeq(line, idx + 1, Len(line))

\* The head of the while loop: in the line while idx < len(line), else at the
\* head of the for loop.
LoopHead(line, idx) == IF idx < Len(line) THEN "line" ELSE "lines"

\* LineTokenizer(*pairs, no_match=handler).tokens(text, filename) up to the
\* first turn of the loop over the lines.
InitTokenizer ==
    /\ t_patterns \in PatternLists
    /\ t_no_match \in NoMatchActions
    /\ t_file \in {splitlines(text) : text \in Texts}
    /\ t_filename \in Filenames
    /\ t_n_lines = 0
    /\ t_idx = 0
    /\ t_pc = "lines"
    /\ t_yielded = <<>>
    /\ t_trace = <<>>
    /\ t_exc = NoParseError

\* for line in file: the next line, from its start.
TokNextLine ==
    /\ t_pc = "lines"
    /\ t_n_lines < Len(t_file)
    /\ t_n_lines' = t_n_lines + 1
    /\ t_idx' = 0
    /\ t_pc' = LoopHead(t_file[t_n_lines + 1], 0)
    /\ UNCHANGED <<t_patterns, t_no_match, t_file, t_filename, t_yielded, t_trace, t_exc,
                   notTokenizerVars>>

\* The lines are exhausted: the generator returns.
TokReturn ==
    /\ t_pc = "lines"
    /\ t_n_lines = Len(t_file)
    /\ t_pc' = "returned"
    /\ UNCHANGED <<t_patterns, t_no_match, t_file, t_filename, t_n_lines, t_idx, t_yielded,
                   t_trace, t_exc, notTokenizerVars>>

\* A turn of the while loop in which a pattern matches: the token of the first
\* such pattern is yielded, if it has a constructor, and idx moves to the end
\* of the match.
TokMatch ==
    /\ t_pc = "line"
    /\ Len(t_trace) < MaxTurns
    /\ \E line \in {t_file[t_n_lines]} :
       \E i \in {FirstMatch(t_patterns, line, t_idx)} :
         /\ i # 0
         /\ \E end \in {MatchEnd(t_patterns[i].pattern, line, t_idx)} :
            \E token \in {Token(t_patterns[i].constructor, SubSeq(line, t_idx + 1, end),
                                t_filename, t_n_lines, t_idx + 1)} :
              /\ t_yielded' = IF t_patterns[i].constructor # "None"
                                THEN Append(t_yielded, token) ELSE t_yielded
              /\ t_trace' = Append(t_trace, [matched |-> TRUE, pattern |-> i, token |-> token,
                                             length |-> end - t_idx])
              /\ t_idx' = end
              /\ t_pc' = LoopHead(line, end)
    /\ UNCHANGED <<t_patterns, t_no_match, t_file, t_filename, t_n_lines, t_exc,
                   notTokenizerVars>>

\* A turn of the while loop in which no pattern matches: the handler is called
\* with the rest of the line and its position.
TokNoMatch ==
    /\ t_pc = "line"
    /\ Len(t_trace) < MaxTurns
    /\ \E line \in {t_file[t_n_lines]} :
         /\ FirstMatch(t_patterns, line, t_idx) = 0
         /\ \E call \in {Token(t_no_match, From(line, t_idx), t_filename, t_n_lines, t_idx + 1)} :
            \E r \in {no_match(t_no_match, call.text, call.filename, call.line, call.column)} :
              /\ t_trace' = Append(t_trace, [matched |-> FALSE, pattern |-> 0, token |-> call,
                                             length |-> r.length])
              /\ IF r.raises # NoParseError
                   THEN /\ t_pc' = "raised"
                        /\ t_exc' = r.raises
                        /\ UNCHANGED <<t_yielded, t_idx>>
                   ELSE IF r.token = StopIterationToken
                   THEN /\ t_pc' = "returned"
                        /\ UNCHANGED <<t_yielded, t_idx, t_exc>>
                   ELSE /\ t_yielded' = IF r.token = NoToken THEN t_yielded
                                        ELSE Append(t_yielded, r.token)
                        /\ t_idx' = t_idx + r.length
                        /\ t_pc' = LoopHead(line, t_idx + r.length)
                        /\ UNCHANGED t_exc
    /\ UNCHANGED <<t_patterns, t_no_match, t_file, t_filename, t_n_lines, notTokenizerVars>>

NextTokenizer ==
    \/ TokNextLine
    \/ TokReturn
    \/ TokMatch
    \/ TokNoMatch

(***************************************************************************)
(* Part VIII: Parser of src/historical/timeDigester.py.  A token of the    *)
(* input is known by the pattern it matches and the groups of the match;   *)
(* times and the parts of a date are small numbers, Null for a group that  *)
(* did not take part in the match.                                         *)
(***************************************************************************)

MaxTokens == 4

Times == {1, 2}

\* A token with the groups of its match.
ParserToken(kind, start, end, year, month, day) ==
    [kind |-> kind, start |-> start, end |-> end, year |-> year, month |-> month, day |-> day]

\* intervalPattern: (\d{4})?-(\d{4}),?
IntervalTokens == {ParserToken("timeInterval", s, e, Null, Null, Null) :
                     s \in Times \cup {Null}, e \in Times}
\* datePattern: (\d{4})?-(\d{2})?-(\d{2}):
DateTokens == {ParserToken("date", Null, Null, y, 1, 1) : y \in {Null, 1}}
\* labelPattern and commentPattern
OtherTokens == {ParserToken(k, Null, Null, Null, Null, Null) : k \in {"label", "comment"}}
ParserTokens == IntervalTokens \cup DateTokens \cup OtherTokens

NoDate == ParserToken("None", Null, Null, Null, Null, Null)
NoObject_ == ParserToken("None", Null, Null, Null, Null, Null)

\* What a parsing function does: the object it returns (None if the token is
\* not its own) or the message of the exception it raises, and the two fields
\* of the parser after it.
Parsed(object, raises, date, end) ==
    [object |-> object, raises |-> raises, lastDate |-> date, lastTimeIntervalEnd |-> end]

\* The variant of parseDate that keeps the remembered end.
parseDateKeepingEnd(token, date, end) ==
    IF token.kind # "date" THEN Parsed(NoObject_, "", date, end)
    ELSE IF (token.year = Null \/ token.month = Null) /\ date = NoDate
      THEN Parsed(NoObject_, "The first date in the file must be fully specified.", date, end)
    ELSE LET object == ParserToken("date", Null, Null,
                                   IF token.year = Null THEN date.year ELSE token.year,
                                   IF token.month = Null THEN date.month ELSE token.month,
                                   token.day)
         IN  Parsed(object, "", object, end)

parseDate(token, date, end) ==
    IF token.kind # "date" THEN Parsed(NoObject_, "", date, end)
    ELSE IF (token.year = Null \/ token.month = Null) /\ date = NoDate
      THEN Parsed(NoObject_, "The first date in the file must be fully specified.", date, end)
    ELSE LET object == ParserToken("date", Null, Null,
                                   IF token.year = Null THEN date.year ELSE token.year,
                                   IF token.month = Null THEN date.month ELSE token.month,
                                   token.day)
         IN  Parsed(object, "", object, Null)

parseLabel(token, date, end) ==
    IF token.kind # "label" THEN Parsed(NoObject_, "", date, end)
    ELSE Parsed(token, "", date, end)

parseTimeInterval(token, date, end) ==
    IF token.kind # "timeInterval" THEN Parsed(NoObject_, "", date, end)
    ELSE IF token.start = Null /\ end = Null
      THEN Parsed(NoObject_, "The first time interval for a date must have a start time.",
                  date, end)
    ELSE Parsed(ParserToken("timeInterval", IF token.start = Null THEN end ELSE token.start,
                            token.end, Null, Null, Null),
                "", date, token.end)

parseComment(token, date, end) ==
    IF token.kind # "comment" THEN Parsed(NoObject_, "", date, end)
    ELSE Parsed(token, "", date, end)

\* The loop over self.parsingFunctions, in their order, up to the first that
\* returns an object or raises.
ParseToken(token, date, end) ==
    LET i == parseTimeInterval(token, date, end)
        l == parseLabel(token, date, end)
        d == parseDate(token, date, end)
        c == parseComment(token, date, end)
    IN  IF i.object # NoObject_ \/ i.raises # "" THEN i
        ELSE IF l.object # NoObject_ \/ l.raises # "" THEN l
        ELSE IF d.object # NoObject_ \/ d.raises # "" THEN d
        ELSE IF c.object # NoObject_ \/ c.raises # "" THEN c
        ELSE Parsed(NoObject_, "What the hell is this supposed to mean?", date, end)

\* Parser() and the start of makeBasicAST on a file.
InitParser ==
    /\ p_tokens \in SeqsUpTo(ParserTokens, MaxTokens)
    /\ lastDate = NoDate
    /\ lastTimeIntervalEnd = Null
    /\ ast = <<>>
    /\ p_pc = "parsing"
    /\ p_exc = ""

\* One turn of the loop over the tokens.
ParseNext ==
    /\ p_pc = "parsing"
    /\ Len(ast) < Len(p_tokens)
    /\ \E r \in {ParseToken(p_tokens[Len(ast) + 1], lastDate, lastTimeIntervalEnd)} :
         /\ lastDate' = r.lastDate
         /\ lastTimeIntervalEnd' = r.lastTimeIntervalEnd
         /\ IF r.raises # ""
              THEN p_pc' = "raised" /\ p_exc' = r.raises /\ UNCHANGED ast
              ELSE ast' = Append(ast, r.object) /\ UNCHANGED <<p_pc, p_exc>>
    /\ UNCHANGED <<p_tokens, notParserVars>>

\* The tokens are exhausted: makeBasicAST returns the nodes.
ParseReturn ==
    /\ p_pc = "parsing"
    /\ Len(ast) = Len(p_tokens)
    /\ p_pc' = "returned"
    /\ UNCHANGED <<p_tokens, lastDate, lastTimeIntervalEnd, ast, p_exc, notParserVars>>

NextParser ==
    \/ ParseNext
    \/ ParseReturn

(***************************************************************************)
(* Part IX: multikey_sort as a function of a list, keys, directions and a  *)
(* range.  The elements are FileMeta objects whose os.stat is known, the   *)
(* keys the attribute getters of report; an element is known by its path,  *)
(* its position in the list passed.                                        *)
(***************************************************************************)

MaxSortLen == 4

SortValues == {1, 2}

\* The object at position i of the list passed, with its two attributes.
SortObject(i, mtime, n_links) ==
    [ReportMeta(i, NoRow) EXCEPT
        !.stat = [called |-> TRUE, st_mtime_ns |-> mtime, st_nlink |-> n_links]]

SortLists ==
    UNION {{[i \in 1..n |-> SortObject(i, ms[i], ns[i])] :
              ms \in [1..n -> SortValues], ns \in [1..n -> SortValues]} : n \in 0..MaxSortLen}

SortKeys ==
    {<<>>, <<"pick_orig__mtime">>, <<"pick_orig__n_links">>,
     <<"pick_orig__mtime", "pick_orig__n_links">>,
     <<"pick_orig__n_links", "pick_orig__mtime">>}

\* A call of multikey_sort: reverses is None or as long as keys; start and stop
\* are None or positions of the list with start <= stop.
InitSort ==
    /\ s_lst \in SortLists
    /\ s_keys \in SortKeys
    /\ s_reverses \in {<<>>} \cup [1..Len(s_keys) -> BOOLEAN]
    /\ s_start \in {Null} \cup 0..Len(s_lst)
    /\ s_stop \in {Null} \cup 0..Len(s_lst)
    /\ (s_start # Null /\ s_stop # Null) => s_start <= s_stop
    /\ s_input = s_lst
    /\ s_pc = "call"

\* multikey_sort(lst, keys, reverses, start, stop)
MultikeySort ==
    /\ s_pc = "call"
    /\ s_lst' = multikey_sort(s_lst, s_keys, s_reverses, s_start, s_stop).lst
    /\ s_pc' = "returned"
    /\ UNCHANGED <<s_keys, s_reverses, s_start, s_stop, s_input, notSortVars>>

NextSort ==
    \/ MultikeySort

\* The variables of the part a specification does not exercise stay as they are.
DedupUnused ==
    /\ dedup_cmd = "hardlink"
    /\ names = [orig |-> Absent, copy |-> Absent, bkup |-> Absent]
    /\ inodes = [i \in {OrigIno, CopyIno, NewIno} |-> FreeInode]
    /\ pc = "done"
    /\ exitAt = ""
    /\ run = MaxRuns
    /\ prevRun = ""

StoreUnused ==
    /\ fsys = [p \in Paths |-> NoFile]
    /\ fsOps = 0
    /\ fmeta = [p \in Paths |-> NoRow]
    /\ committed = fmeta
    /\ fpc = "idle"
    /\ fexc = ""
    /\ cursor = <<>>
    /\ seen = [p \in Paths |-> NoObject]
    /\ dups = <<>>
    /\ scanLog = NoScan

ReportUnused ==
    /\ stats = [p \in Paths |-> NoStat]
    /\ abspaths = [p \in Paths |-> p]
    /\ duplicates = <<>>
    /\ organized = NoGroup
    /\ script = <<>>
    /\ rpc = "reported"
    /\ rexc = ""

ChecksumUnused ==
    /\ cf_data = <<>>
    /\ cf_region = checksum_size
    /\ cf_call = "head"
    /\ cf_result = NoResult

RaceUnused ==
    /\ r_sorted = <<>>
    /\ r_txn = FALSE

TokenizerUnused ==
    /\ t_patterns = <<>>
    /\ t_no_match = ""
    /\ t_file = <<>>
    /\ t_filename = ""
    /\ t_n_lines = 0
    /\ t_idx = 0
    /\ t_pc = "returned"
    /\ t_yielded = <<>>
    /\ t_trace = <<>>
    /\ t_exc = NoParseError

ParserUnused ==
    /\ p_tokens = <<>>
    /\ lastDate = NoDate
    /\ lastTimeIntervalEnd = Null
    /\ ast = <<>>
    /\ p_pc = "returned"
    /\ p_exc = ""

SortUnused ==
    /\ s_lst = <<>>
    /\ s_keys = <<>>
    /\ s_reverses = <<>>
    /\ s_start = Null
    /\ s_stop = Null
    /\ s_input = <<>>
    /\ s_pc = "returned"

BackupUnused ==
    /\ bkup_is_orig = FALSE

MainUnused ==
    /\ m_entry = "api"
    /\ m_args = [commands |-> <<>>, dedup |-> NoOption, min_size |-> NoOption,
                 paths_ok |-> TRUE]
    /\ m_kwargs = [commands |-> <<>>, dedup |-> <<"hardlink">>,
                   min_file_size |-> DefaultMinFileSize]
    /\ m_pc = "done"
    /\ m_next = 1
    /\ m_running = ""
    /\ m_calls = <<>>
    /\ m_effects = {}
    /\ m_exc = ""

\* One plan of a single dedup instruction, run up to MaxRuns times.
InitSpecDedup ==
    /\ InitDedup
    /\ StoreUnused
    /\ ReportUnused
    /\ ChecksumUnused
    /\ MainUnused
    /\ RaceUnused
    /\ TokenizerUnused
    /\ ParserUnused
    /\ SortUnused
    /\ BackupUnused

SpecDedup == InitSpecDedup /\ [][NextDedup]_vars

\* The same procedure on any paths: the backup path of the copy may be the path
\* of the original (an original named x.dedup.bak with a copy named x).
InitSpecDedupAnyPaths ==
    /\ bkup_is_orig \in BOOLEAN
    /\ StartDedup(bkup_is_orig)
    /\ StoreUnused
    /\ ReportUnused
    /\ ChecksumUnused
    /\ MainUnused
    /\ RaceUnused
    /\ TokenizerUnused
    /\ ParserUnused
    /\ SortUnused

SpecDedupAnyPaths == InitSpecDedupAnyPaths /\ [][NextDedup]_vars

\* Scans, comparison passes and reports of one store, one after the other, with
\* the file system changing between them.
InitSpecStore ==
    /\ InitStore
    /\ DedupUnused
    /\ ReportUnused
    /\ ChecksumUnused
    /\ MainUnused
    /\ RaceUnused
    /\ TokenizerUnused
    /\ ParserUnused
    /\ SortUnused
    /\ BackupUnused

SpecStore == InitSpecStore /\ [][NextStore]_vars

\* The report of one group, for every group, order of its members and state of
\* its files within the bounds.
InitSpecReport ==
    /\ InitReport
    /\ DedupUnused
    /\ StoreUnused
    /\ ChecksumUnused
    /\ MainUnused
    /\ RaceUnused
    /\ TokenizerUnused
    /\ ParserUnused
    /\ SortUnused
    /\ BackupUnused

SpecReport == InitSpecReport /\ [][NextReport]_vars

\* One call of checksum_file, for every file and region size within the bounds.
InitSpecChecksum ==
    /\ InitChecksum
    /\ DedupUnused
    /\ StoreUnused
    /\ ReportUnused
    /\ MainUnused
    /\ RaceUnused
    /\ TokenizerUnused
    /\ ParserUnused
    /\ SortUnused
    /\ BackupUnused

SpecChecksum == InitSpecChecksum /\ [][NextChecksum]_vars

\* One run of the program for every command line and every call of main_api
\* within the bounds.
InitSpecMain ==
    /\ InitMain
    /\ DedupUnused
    /\ StoreUnused
    /\ ReportUnused
    /\ ChecksumUnused
    /\ RaceUnused
    /\ TokenizerUnused
    /\ ParserUnused
    /\ SortUnused
    /\ BackupUnused

SpecMain == InitSpecMain /\ [][NextMain]_vars

\* Comparison passes of one process, scans of another and the writes of other
\* programs, in every interleaving.
InitSpecRace ==
    /\ InitStore
    /\ RaceUnused
    /\ DedupUnused
    /\ ReportUnused
    /\ ChecksumUnused
    /\ MainUnused
    /\ TokenizerUnused
    /\ ParserUnused
    /\ SortUnused
    /\ BackupUnused

SpecRace == InitSpecRace /\ [][NextRace]_vars

\* Every run of the tokenizer over the texts, patterns and handlers of the model.
InitSpecTokenizer ==
    /\ InitTokenizer
    /\ DedupUnused
    /\ StoreUnused
    /\ ReportUnused
    /\ ChecksumUnused
    /\ MainUnused
    /\ RaceUnused
    /\ ParserUnused
    /\ SortUnused
    /\ BackupUnused

SpecTokenizer == InitSpecTokenizer /\ [][NextTokenizer]_vars

\* Every parse of the token sequences of the model.
InitSpecParser ==
    /\ InitParser
    /\ DedupUnused
    /\ StoreUnused
    /\ ReportUnused
    /\ ChecksumUnused
    /\ MainUnused
    /\ RaceUnused
    /\ TokenizerUnused
    /\ SortUnused
    /\ BackupUnused

SpecParser == InitSpecParser /\ [][NextParser]_vars

\* Every call of multikey_sort on the lists, keys, directions and ranges of the model.
InitSpecSort ==
    /\ InitSort
    /\ DedupUnused
    /\ StoreUnused
    /\ ReportUnused
    /\ ChecksumUnused
    /\ MainUnused
    /\ RaceUnused
    /\ TokenizerUnused
    /\ ParserUnused
    /\ BackupUnused

SpecSort == InitSpecSort /\ [][NextSort]_vars

(***************************************************************************)
(* Properties of the emitted procedure dedup(), checked under SpecDedup.   *)
(***************************************************************************)

\* C1: the backup of the copy is removed only by the rm that follows a successful
\* cmp_files_metas_attrs of the backup with the new link; a failing verification
\* exits without touching a name, and a run that exits at the link command, at
\* the restoring of the attributes or at the verification leaves the backup.
C1_BackupRemovedOnlyAfterVerification ==
    /\ [][(names["bkup"] # Absent /\ names'["bkup"] = Absent)
            => (pc = "rm" /\ cmp_files_metas_attrs(names, inodes, "bkup", "copy"))]_vars
    /\ [][(pc = "verify" /\ ~cmp_files_metas_attrs(names, inodes, "bkup", "copy"))
            => (pc' = "exited" /\ names' = names)]_vars
    /\ [](pc = "exited" /\ exitAt \in {"link", "restore_attrs", "verify"}
            => names["bkup"] # Absent)

\* A reflink run that went through the verification and removed the backup.
C1_Witness ==
    /\ dedup_cmd = "reflink"
    /\ run = 1
    /\ pc = "done"
    /\ names["copy"] = NewIno
    /\ names["bkup"] = Absent
    /\ cmp_files_metas_attrs(names, inodes, "orig", "copy")

\* C3: when the contents of the original and the copy differ, the comparison
\* exits the script with every name and file as it was; the copy is renamed aside
\* only from a comparison that found the contents equal, and nothing is renamed,
\* linked or removed before that rename.
C3_MismatchAbortsBeforeDestructiveStep ==
    /\ [][(pc = "cmp" /\ ~CmpQuiet(names, inodes, "orig", "copy"))
            => (pc' = "exited" /\ exitAt' = "cmp" /\ names' = names /\ inodes' = inodes)]_vars
    /\ [][(pc' = "mv" /\ pc # "mv")
            => (pc = "cmp" /\ CmpQuiet(names, inodes, "orig", "copy"))]_vars
    /\ [][(names' # names \/ inodes' # inodes)
            => pc \in {"mv", "link", "restore_attrs", "rm"}]_vars

\* A run that exited at the comparison: the copy differs from the original and is
\* still in place, and there is no backup.
C3_Witness ==
    /\ pc = "exited"
    /\ exitAt = "cmp"
    /\ run = 1
    /\ names["copy"] = CopyIno
    /\ names["bkup"] = Absent
    /\ inodes[CopyIno].data # inodes[OrigIno].data

\* C4 as stated: files that are the same inode or share extents are left alone,
\* and a second run of the plan after a successful first run changes no file,
\* whatever the link command.
C4_RerunChangesNothing ==
    /\ [][(pc = "check_linked"
             /\ (SameFile(names, "orig", "copy") \/ equal_extents(names, inodes, "orig", "copy")))
            => (pc' = "done" /\ names' = names /\ inodes' = inodes)]_vars
    /\ [][(run >= 2 /\ prevRun = "done") => (names' = names /\ inodes' = inodes)]_vars

\* C4 (amended): files that are the same inode or share extents are left alone,
\* and a second run of the plan after a successful first run changes no file when
\* the link command is one of the built-in styles.
C4_RerunChangesNothingBuiltin ==
    /\ [][(pc = "check_linked"
             /\ (SameFile(names, "orig", "copy") \/ equal_extents(names, inodes, "orig", "copy")))
            => (pc' = "done" /\ names' = names /\ inodes' = inodes)]_vars
    /\ [][(run >= 2 /\ prevRun = "done" /\ dedup_cmd # "custom")
            => (names' = names /\ inodes' = inodes)]_vars

\* The second run of a plan whose first run made a reflink has returned at the
\* test for linked files.
C4_Witness ==
    /\ dedup_cmd = "reflink"
    /\ run = 2
    /\ prevRun = "done"
    /\ pc = "done"
    /\ names["copy"] = NewIno
    /\ names["bkup"] = Absent

(***************************************************************************)
(* Properties of the store, the comparison pass and the gathering, checked *)
(* under SpecStore.                                                        *)
(***************************************************************************)

DigestFields == {"checksum_beg", "checksum_end", "checksum_all", "extents_hash"}
ChecksumFields == {"checksum_beg", "checksum_end", "checksum_all"}

\* The identity a row or a FileMeta object holds, and the one `find` prints now.
Identity(rec) == <<rec.size, rec.inode, rec.mtime>>
FileIdentity(p) == <<Len(fsys[p].data), fsys[p].inode, fsys[p].mtime>>
NoDigests(row) == \A f \in DigestFields : row[f] = Null

\* The row of p describes the file that is at p now.
InSync(p) == fmeta[p].present /\ fsys[p].exists /\ Identity(fmeta[p]) = FileIdentity(p)

\* The digest of the file that is at p now, field by field.
TrueDigest(p, f) ==
    CASE f = "extents_hash" -> fsys[p].ext
      [] f = "checksum_beg" \/ Len(fsys[p].data) <= checksum_size
           -> checksum_file(fsys[p].data, checksum_size).digest
      [] f = "checksum_end" -> checksum_file(fsys[p].data, 0 - checksum_size).digest
      [] f = "checksum_all" -> checksum_file(fsys[p].data, Len(fsys[p].data)).digest

\* The objects a pass has read for the size-class of p, p among them.
SizeClass(p) == {q \in Paths : seen[q] # NoObject /\ seen[q].size = seen[p].size}

\* p and q are members of one group of the last report.
Grouped(p, q) ==
    \E g \in 1..Len(dups) :
      /\ \E i \in 1..Len(dups[g]) : dups[g][i].path = p
      /\ \E i \in 1..Len(dups[g]) : dups[g][i].path = q

\* C2: an upsert whose size, inode or mtime differs from the stored row sets the
\* three to the new values and the four digests to null in one step; the
\* identity of a row never changes in any other way; and a row that describes
\* the file now at its path holds no digest that is not that file's.
C2_ChangedIdentityNullsDigests ==
    /\ [][Scan => \A p \in Paths :
                    (fsys[p].exists /\ fmeta[p].present /\ FileIdentity(p) # Identity(fmeta[p]))
                      => (Identity(fmeta'[p]) = FileIdentity(p) /\ NoDigests(fmeta'[p]))]_vars
    /\ [][\A p \in Paths :
            (fmeta[p].present /\ Identity(fmeta'[p]) # Identity(fmeta[p]))
              => (Identity(fmeta'[p]) = FileIdentity(p) /\ NoDigests(fmeta'[p]))]_vars
    /\ [](\A p \in Paths : InSync(p) =>
            \A f \in DigestFields : fmeta[p][f] = Null \/ fmeta[p][f] = TrueDigest(p, f))

\* A scan has just updated the row of a replaced file p.  The row of q holds a
\* head digest, so a pass has compared q with a file of its size, and that was
\* not r: p had digests, and has none now.
C2_Witness ==
    \E p, q, r \in Paths :
      /\ p # q /\ p # r /\ q # r
      /\ fsOps = 1
      /\ scanLog.n_updates = 1
      /\ InSync(p) /\ fmeta[p].inode >= 10 /\ NoDigests(fmeta[p])
      /\ InSync(q) /\ fmeta[q].checksum_beg # Null
      /\ InSync(r) /\ fmeta[r].size # fmeta[q].size

\* C5: every group gather_duplicates yields has two members or more, and its
\* members have the same size and the same head, tail and full digest.
C5_GroupMembersAgree ==
    \A g \in 1..Len(dups) :
      /\ Len(dups[g]) >= 2
      /\ \A i, j \in 1..Len(dups[g]) :
           /\ dups[g][i].size = dups[g][j].size
           /\ \A f \in ChecksumFields : dups[g][i][f] = dups[g][j][f]

\* A report of one group of two files; a third file of their size with the same
\* head and tail digest, but another full digest, is not in it.
C5_Witness ==
    /\ Len(dups) = 1
    /\ Len(dups[1]) = 2
    /\ \E p \in Paths :
         /\ \A i \in 1..2 : dups[1][i].path # p
         /\ fmeta[p].present
         /\ fmeta[p].size = dups[1][1].size
         /\ fmeta[p].checksum_beg = dups[1][1].checksum_beg
         /\ fmeta[p].checksum_end = dups[1][1].checksum_end
         /\ fmeta[p].checksum_all \notin {Null, dups[1][1].checksum_all}

\* C6: after the command find and a report, any two stored files with equal
\* contents whose rows are up to date are members of one group.
C6_EveryDuplicateSetIsEmitted ==
    fpc = "reported" =>
      \A p, q \in Paths :
        (p # q /\ InSync(p) /\ InSync(q) /\ fsys[p].data = fsys[q].data) => Grouped(p, q)

\* C7: no pass ends with the exception that a vanished file raises.
C7_VanishedFileDoesNotEndThePass ==
    fexc \notin {"FileNotFoundError", "IndexError"}

\* C8: the only member of a size-class has no key called, no file checksummed,
\* no extents read, and no digest written to its row.
C8_SingletonClassCostsNothing ==
    \A p \in Paths :
      (seen[p] # NoObject /\ SizeClass(p) = {p}) =>
        /\ seen[p].asked = {}
        /\ \A f \in DigestFields : seen[p].n_checksums[f] = 0
        /\ ~seen[p].hashed_file
        /\ \A f \in DigestFields : fmeta[p][f] = committed[p][f]

\* A finished pass that read a file alone in its size-class and checksummed
\* the files of another class.
C8_Witness ==
    /\ fpc = "found"
    /\ \E p, q \in Paths :
         /\ seen[p] # NoObject /\ SizeClass(p) = {p}
         /\ seen[q] # NoObject /\ seen[q].hashed_file

\* C9 as stated: in a size-class of files no two of which have the same contents,
\* every member has at most one head digest computed, and no tail digest, full
\* digest or extents digest.
C9_NoDuplicatesCostOneHead ==
    \A p \in Paths :
      (/\ seen[p] # NoObject
       /\ \A q, r \in SizeClass(p) :
            q # r => (fsys[q].exists /\ fsys[r].exists /\ fsys[q].data # fsys[r].data))
        => /\ seen[p].n_checksums.checksum_beg <= 1
           /\ \A f \in DigestFields \ {"checksum_beg"} : seen[p].n_checksums[f] = 0

\* C9 (amended): in a size-class of files no two of which have the same head
\* digest, every member has at most one head digest computed, and no tail
\* digest, full digest or extents digest.
C9_DistinctHeadsCostOneHead ==
    \A p \in Paths :
      (/\ seen[p] # NoObject
       /\ \A q \in SizeClass(p) : seen[q].checksum_beg # Null
       /\ \A q, r \in SizeClass(p) : q # r => seen[q].checksum_beg # seen[r].checksum_beg)
        => /\ seen[p].n_checksums.checksum_beg <= 1
           /\ \A f \in DigestFields \ {"checksum_beg"} :
                seen[p].n_checksums[f] = 0 /\ f \notin seen[p].asked

\* A finished pass over a size-class of two files longer than checksum_size with
\* two head digests, each computed in this pass and nothing else.
C9_Witness ==
    /\ fpc = "found"
    /\ \E p, q \in Paths :
         /\ p # q
         /\ seen[p] # NoObject
         /\ SizeClass(p) = {p, q}
         /\ seen[p].size > checksum_size
         /\ seen[p].checksum_beg # seen[q].checksum_beg
         /\ \A x \in {p, q} :
              /\ seen[x].n_checksums.checksum_beg = 1
              /\ seen[x].checksum_end = Null

\* C10: a pass calls the tail digest of a file only if another file of its
\* size-class has the same head digest, the full digest only if another file has
\* the same head and tail digest, and the extents digest only if another file
\* has the same head, tail and full digest.
C10_KeysCalledOnlyWithinTies ==
    \A p \in Paths :
      seen[p] # NoObject =>
        \A k \in 2..Len(KeyNames) :
          KeyNames[k] \in seen[p].asked =>
            \E q \in SizeClass(p) \ {p} :
              \A j \in 1..(k - 1) :
                seen[q][KeyNames[j]] # Null /\ seen[q][KeyNames[j]] = seen[p][KeyNames[j]]

\* A finished pass over a size-class of three files: two tie on every digest and
\* have their extents read, the third has another head digest and no other key
\* called.
C10_Witness ==
    /\ fpc = "found"
    /\ \E p, q, r \in Paths :
         /\ SizeClass(p) = {p, q, r}
         /\ p # q /\ p # r /\ q # r
         /\ "extents_hash" \in seen[p].asked
         /\ "extents_hash" \in seen[q].asked
         /\ seen[r].asked = {"checksum_beg"}

\* C11: in one pass no digest of a file is computed more than once, and a digest
\* the row held when the pass began is not computed at all.
C11_DigestsComputedAtMostOnce ==
    \A p \in Paths :
      seen[p] # NoObject =>
        \A f \in DigestFields :
          /\ seen[p].n_checksums[f] <= 1
          /\ (fpc \in {"running", "crashed"} /\ committed[p][f] # Null)
               => (seen[p].n_checksums[f] = 0 /\ seen[p][f] = committed[p][f])

\* A pass has sorted a size-class by all four keys: p came with a head digest
\* from the store and had the others computed once, q had all four computed once.
C11_Witness ==
    /\ fpc = "running"
    /\ \E p, q \in Paths :
         /\ p # q
         /\ seen[p] # NoObject /\ seen[q] # NoObject
         /\ committed[p].checksum_beg # Null /\ committed[p].checksum_end = Null
         /\ seen[p].size > checksum_size
         /\ seen[p].asked = DigestFields
         /\ seen[p].n_checksums.checksum_beg = 0
         /\ seen[p].n_checksums.checksum_end = 1
         /\ seen[p].n_checksums.extents_hash = 1
         /\ \A f \in DigestFields : seen[q].n_checksums[f] = 1

\* C12: once a size-class is sorted and its loop over the files has run, the row
\* of every file the pass has read holds every digest the file's object knows,
\* also a tail or full digest that a small file took from its head digest.
C12_KnownDigestsAreWritten ==
    (fpc \in {"running", "found", "reported"} /\ fexc = "") =>
      \A p \in Paths :
        seen[p] # NoObject =>
          \A f \in DigestFields : seen[p][f] # Null => fmeta[p][f] = seen[p][f]

\* A small file came to the pass with its head digest in the store and no tail
\* digest; the pass took tail and full digest from the head without reading the
\* file for them, and the row holds them now.
C12_Witness ==
    /\ fpc = "running"
    /\ \E p \in Paths :
         /\ seen[p] # NoObject
         /\ seen[p].size <= checksum_size
         /\ committed[p].checksum_beg # Null
         /\ committed[p].checksum_end = Null
         /\ seen[p].n_checksums.checksum_beg = 0
         /\ fmeta[p].checksum_end = seen[p].checksum_beg
         /\ fmeta[p].checksum_all = seen[p].checksum_beg

\* C13: a scan leaves the row of every file whose size, inode and mtime are those
\* of its row as it is, digests included, and a scan that finds every file so
\* changes no row, inserts nothing and updates nothing.
C13_ScanIsIdempotent ==
    /\ [][Scan => \A p \in Paths : InSync(p) => fmeta'[p] = fmeta[p]]_vars
    /\ [][(Scan /\ \A p \in Paths : fsys[p].exists => InSync(p))
            => (fmeta' = fmeta /\ scanLog' = NoScan)]_vars

\* A scan has just found nothing to insert or update: every path has a file and
\* a row that describes it, and rows hold digests of an earlier pass.
C13_Witness ==
    /\ fpc = "idle"
    /\ scanLog = NoScan
    /\ dups = <<>>
    /\ \A p \in Paths : InSync(p)
    /\ \E p \in Paths : fmeta[p].checksum_beg # Null /\ fmeta[p].extents_hash # Null

\* C14: the table holds a row for a path from the first scan that finds a file
\* there: that scan inserts the row with the file's size, inode and mtime and
\* four null digests; a row once stored stays, whatever scan, find or report
\* does, and only a scan adds rows.  (The table is keyed by path, as the primary
\* key makes it: a path has one row or none.)
C14_OneRecordPerUpsertedPath ==
    /\ [][\A p \in Paths : fmeta[p].present => fmeta'[p].present]_vars
    /\ [][\A p \in Paths :
            (~fmeta[p].present /\ fmeta'[p].present)
              => (/\ fsys[p].exists
                  /\ scanLog'.n_inserts >= 1
                  /\ Identity(fmeta'[p]) = FileIdentity(p)
                  /\ NoDigests(fmeta'[p]))]_vars
    /\ [][Scan => \A p \in Paths : fmeta'[p].present = (fmeta[p].present \/ fsys[p].exists)]_vars

\* A first scan has inserted the rows of two files with null digests; the third
\* path had no file and has no row.
C14_Witness ==
    /\ scanLog = [n_inserts |-> 2, n_updates |-> 0]
    /\ \E p \in Paths :
         /\ ~fsys[p].exists /\ ~fmeta[p].present
         /\ \A q \in Paths \ {p} : InSync(q) /\ NoDigests(fmeta[q])

\* FileMeta objects of the pass whose row is up to date and holds a size of at
\* most checksum_size, and for which the sort has called a key.
SmallFilesAsked ==
    {p \in Paths : /\ seen[p] # NoObject
                   /\ InSync(p)
                   /\ seen[p].size <= checksum_size
                   /\ seen[p].asked # {}}

\* The head, tail and full digests the object of p holds are one digest, and the
\* file was read at most once, for the head digest.
OneDigestOneRead(p) ==
    /\ \A f, g \in ChecksumFields :
         (seen[p][f] # Null /\ seen[p][g] # Null) => seen[p][f] = seen[p][g]
    /\ seen[p].n_checksums.checksum_beg <= 1
    /\ seen[p].n_checksums.checksum_end = 0
    /\ seen[p].n_checksums.checksum_all = 0
    /\ (fpc \in {"running", "crashed"} /\ committed[p].checksum_beg # Null)
         => seen[p].n_checksums.checksum_beg = 0

\* C19: a file of at most checksum_size bytes has the digest of each key the sort
\* called for it, its head, tail and full digests are equal, and it was read at
\* most once, for the head digest (not at all if the row held the head digest).
C19_SmallFileOneDigestOneRead ==
    \A p \in SmallFilesAsked :
      /\ \A f \in seen[p].asked \cap ChecksumFields : seen[p][f] # Null
      /\ OneDigestOneRead(p)

\* The same for the files of 1 to checksum_size bytes.
C19_NonEmptySmallFileOneDigestOneRead ==
    \A p \in SmallFilesAsked :
      seen[p].size >= 1 =>
        /\ \A f \in seen[p].asked \cap ChecksumFields : seen[p][f] # Null
        /\ OneDigestOneRead(p)

\* A non-empty small file whose row held the head digest only: tail and full
\* digest were asked and taken from it without a read.
C19_NonEmptyWitness ==
    \E p \in SmallFilesAsked :
      /\ seen[p].size >= 1
      /\ fpc = "running"
      /\ committed[p].checksum_beg # Null
      /\ committed[p].checksum_end = Null
      /\ ChecksumFields \subseteq seen[p].asked
      /\ seen[p].checksum_all = seen[p].checksum_beg
      /\ seen[p].n_checksums.checksum_beg = 0

(***************************************************************************)
(* Properties of the report.                                               *)
(***************************************************************************)

\* The paths of the objects of a list.
PathsOf(lst) == {lst[i].path : i \in 1..Len(lst)}

\* organize_duplicates has returned for the group.
Organized == rpc \in {"organized", "reported"}

\* The members of the group other than the original, in the order handed over.
Others == SelectSeq(duplicates, LAMBDA d : d.path # organized.orig.path)

\* C15: when organize_duplicates returns, the original is a member of the group,
\* every other member is in exactly one of hard_links, ref_links and copies, once,
\* nothing else is in them, and a group of two or more members leaves at least
\* one of the three non-empty.
C15_ClassesPartitionTheGroup ==
    Organized =>
      /\ organized.orig.path \in PathsOf(duplicates)
      /\ PathsOf(organized.hard_links) \cap PathsOf(organized.ref_links) = {}
      /\ PathsOf(organized.hard_links) \cap PathsOf(organized.copies) = {}
      /\ PathsOf(organized.ref_links) \cap PathsOf(organized.copies) = {}
      /\ PathsOf(organized.hard_links) \cup PathsOf(organized.ref_links)
           \cup PathsOf(organized.copies)
           = PathsOf(duplicates) \ {organized.orig.path}
      /\ Len(organized.hard_links) + Len(organized.ref_links) + Len(organized.copies)
           = Len(duplicates) - 1
      /\ Len(duplicates) >= 2
           => (organized.hard_links # <<>> \/ organized.ref_links # <<>>
               \/ organized.copies # <<>>)

\* A group of three has been organized into the original, a hard link and a copy.
C15_Witness ==
    /\ rpc = "organized"
    /\ Len(duplicates) = 3
    /\ Len(organized.hard_links) = 1
    /\ Len(organized.copies) = 1

\* C16: a member other than the original is in hard_links exactly if its inode is
\* the original's, in ref_links exactly if its inode is another and its extents
\* digest the original's, and in copies exactly if both differ.
C16_ClassifiedRelativeToOriginal ==
    Organized =>
      \A i \in 1..Len(Others) :
        LET d == Others[i]
            same_inode == d.inode = organized.orig.inode
            same_extents == d.extents_hash = organized.orig.extents_hash
        IN  /\ d.path \in PathsOf(organized.hard_links) <=> same_inode
            /\ d.path \in PathsOf(organized.ref_links) <=> (~same_inode /\ same_extents)
            /\ d.path \in PathsOf(organized.copies) <=> (~same_inode /\ ~same_extents)

\* A member with the original's inode and the original's extents digest is among
\* the hard links, beside a member with another inode and the same extents digest
\* among the reflinks.
C16_Witness ==
    /\ rpc = "organized"
    /\ Len(organized.hard_links) = 1
    /\ organized.hard_links[1].extents_hash = organized.orig.extents_hash
    /\ Len(organized.ref_links) = 1
    /\ organized.ref_links[1].inode # organized.orig.inode

\* The instructions report_script has printed.
DedupLines == SelectSeq(script, LAMBDA line : line.cmd = "dedup")

\* C17: the script holds one instruction `dedup original copy` for each member of
\* copies and no other instruction: none names the original, a hard link or a
\* reflink as the copy, and a group without copies adds nothing to the script.
C17_OneInstructionPerCopy ==
    rpc = "reported" =>
      /\ Len(DedupLines) = Len(organized.copies)
      /\ \A c \in PathsOf(organized.copies) :
           \E i \in 1..Len(DedupLines) :
             /\ DedupLines[i].orig = shlex_quote(organized.orig.path)
             /\ DedupLines[i].copy = shlex_quote(c)
      /\ \A i \in 1..Len(DedupLines) :
           \A p \in {organized.orig.path} \cup PathsOf(organized.hard_links)
                      \cup PathsOf(organized.ref_links) :
             DedupLines[i].copy # shlex_quote(p)
      /\ organized.copies = <<>> => script = <<HeaderLine>>

\* The script for a group of the original, a hard link of it and a copy: one
\* instruction, for the copy.
C17_Witness ==
    /\ rpc = "reported"
    /\ Len(organized.hard_links) = 1
    /\ Len(organized.copies) = 1
    /\ Len(DedupLines) = 1
    /\ DedupLines[1].copy = shlex_quote(organized.copies[1].path)

\* The group with its members in the order `order` of their paths.
Reordered(order) == [i \in 1..Len(order) |-> ObjectAt(duplicates, order[i])]

\* C18: the original picked by the default policy is a member of the group, and
\* for every order of the same members the policy picks that file.
C18_OriginalIndependentOfOrder ==
    Organized =>
      /\ organized.orig.path \in PathsOf(duplicates)
      /\ \A order \in {o \in Orderings(PathsOf(duplicates)) : Len(o) = Len(duplicates)} :
           LET r == pick_original(Reordered(order))
           IN  /\ r.err = ""
               /\ abspaths[r.orig.path] = abspaths[organized.orig.path]

\* The original was handed over last, and another member has its modification
\* time, link count and inode: the path decided.
C18_Witness ==
    /\ rpc = "organized"
    /\ Len(duplicates) = 3
    /\ duplicates[3].path = organized.orig.path
    /\ \E i \in 1..2 :
         /\ stats[duplicates[i].path] = stats[organized.orig.path]
         /\ duplicates[i].inode = organized.orig.inode
         /\ abspaths[duplicates[i].path] # abspaths[organized.orig.path]

(***************************************************************************)
(* Properties of checksum_file.                                            *)
(***************************************************************************)

\* The bytes [from, to) of the file.
Bytes(from, to) == SubSeq(cf_data, from + 1, to)

\* The result is the digest of the bytes [from, to), read as the section that
\* starts at from and has to - from bytes.
DigestOver(from, to) ==
    /\ cf_result.err = ""
    /\ cf_result.offset = from
    /\ cf_result.size = to - from
    /\ cf_result.digest = Hash(Bytes(from, to))

\* C20: for a file of s >= 0 bytes and region size N the head digest is that of
\* the bytes [0, min(N, s)), the tail digest that of [s - min(N, s), s) and the
\* full digest that of [0, s); every call yields a digest.
C20_DigestWindows ==
    LET s == Len(cf_data)
        n == Min(cf_region, s)
    IN  /\ cf_call = "head" => DigestOver(0, n)
        /\ cf_call = "tail" => DigestOver(s - n, s)
        /\ cf_call = "full" => DigestOver(0, s)

\* The same for the files of at least one byte.
C20_DigestWindowsOfNonEmptyFiles ==
    LET s == Len(cf_data)
        n == Min(cf_region, s)
    IN  s >= 1 =>
          /\ cf_call = "head" => DigestOver(0, n)
          /\ cf_call = "tail" => DigestOver(s - n, s)
          /\ cf_call = "full" => DigestOver(0, s)

\* The tail digest of a file longer than the region has been taken.
C20_NonEmptyWitness ==
    /\ cf_call = "tail"
    /\ Len(cf_data) > cf_region
    /\ cf_result.offset = Len(cf_data) - cf_region
    /\ cf_result.digest # Null

(***************************************************************************)
(* Properties of a run.                                                    *)
(***************************************************************************)

\* The run was given a dedup setting that is an unknown style or a command
\* without one of the placeholders.
InvalidDedup == m_args.dedup.has_value /\ ~interpret_dedup(m_args.dedup.val).ok

\* C21: a run whose dedup setting is invalid scans nothing, checksums nothing,
\* writes nothing to the store and prints no script.
C21_InvalidDedupTouchesNothing ==
    InvalidDedup => m_effects = {}

\* The same for the runs started from the command line, which never reach
\* main_api.
C21_InvalidDedupOptionTouchesNothing ==
    (m_entry = "cli" /\ InvalidDedup) =>
      (m_effects = {} /\ m_calls = <<>> /\ m_pc \in {"args", "raised"})

\* A command line with all three commands and a dedup command without the copy
\* placeholder has been rejected as a usage error.
C21_CommandLineWitness ==
    /\ m_entry = "cli"
    /\ RangeOf(m_args.commands) = {"scan", "find"}
    /\ m_args.dedup = Option(<<"cp", OrigPlaceholder>>)
    /\ m_args.min_size = NoOption
    /\ m_pc = "raised"
    /\ m_exc = "CliUsageError"

\* The commands called so far, in the order of the calls.
Called == SelectSeq(m_calls, LAMBDA e : e.event = "call")

\* The place of a command in the order scan, find, report.
Rank(cmd) == CASE cmd = "scan" -> 1 [] cmd = "find" -> 2 [] cmd = "report" -> 3

\* C27: the commands are called in the order scan, find, report, each at most
\* once; only commands that are among those main_api was given are called; a
\* command is called only when the one before has returned; and a run that ends
\* without an exception has called every command it was given.
C27_CommandsRunInFixedOrder ==
    /\ \A i, j \in 1..Len(Called) : i < j => Rank(Called[i].cmd) < Rank(Called[j].cmd)
    /\ \A i \in 1..Len(Called) : Called[i].cmd \in RangeOf(m_kwargs.commands)
    /\ \A i \in 2..Len(m_calls) :
         m_calls[i].event = "call" => m_calls[i - 1].event = "return"
    /\ m_running # "" <=> (m_calls # <<>> /\ m_calls[Len(m_calls)].event = "call")
    /\ m_pc = "done" =>
         {Called[i].cmd : i \in 1..Len(Called)}
           = RangeOf(m_kwargs.commands) \cap {"scan", "find", "report"}

\* report and scan were asked for in that order: scan ran and returned, then
\* report ran and returned.
C27_Witness ==
    /\ m_kwargs.commands = <<"report", "scan">>
    /\ m_pc = "done"
    /\ m_calls = <<[cmd |-> "scan", event |-> "call"], [cmd |-> "scan", event |-> "return"],
                   [cmd |-> "report", event |-> "call"],
                   [cmd |-> "report", event |-> "return"]>>

\* The run was given a --min-size that is not a number.
MalformedMinSize == m_args.min_size.has_value /\ ~IsInt(m_args.min_size.val)

\* C29: a run from the command line with a malformed --min-size ends in a usage
\* error, and one with a well-formed size that reaches main_api passes the
\* number on.
C29_MalformedSizeIsUsageError ==
    /\ (m_entry = "cli" /\ MalformedMinSize /\ m_pc # "args")
         => (m_pc = "raised" /\ m_exc = "CliUsageError")
    /\ (m_entry = "cli" /\ m_args.min_size.has_value /\ ~MalformedMinSize /\ m_pc = "api")
         => m_kwargs.min_file_size = IntOf(m_args.min_size.val)

\* What holds of the sizes: a well-formed size is passed on as its number, and a
\* run with a malformed one never reaches main_api.
C29_SizeIsPassedOnOrRunEnds ==
    /\ (m_entry = "cli" /\ MalformedMinSize /\ m_pc # "args") => m_pc = "raised"
    /\ (m_entry = "cli" /\ m_args.min_size.has_value /\ ~MalformedMinSize /\ m_pc = "api")
         => m_kwargs.min_file_size = IntOf(m_args.min_size.val)

\* --min-size 12 has been passed on to main_api as the number 12.
C29_WellFormedWitness ==
    /\ m_entry = "cli"
    /\ m_args.min_size = Option(<<"1", "2">>)
    /\ m_pc = "api"
    /\ m_kwargs.min_file_size = 12

(***************************************************************************)
(* Properties of a pass beside a scan.                                     *)
(***************************************************************************)

\* C22: whenever the pass has flushed what it sorted, a row that holds the
\* identity of the file now at its path holds no digest that is not that file's.
C22_InvalidationIsNotLost ==
    r_sorted = <<>> =>
      \A p \in Paths :
        InSync(p) => \A f \in DigestFields : fmeta[p][f] \in {Null, TrueDigest(p, f)}

(***************************************************************************)
(* Properties of the tokenizer.                                            *)
(***************************************************************************)

\* The turns of the loop in which a pattern matched, in order.
Matches == SelectSeq(t_trace, LAMBDA e : e.matched)

\* The 0-based position at which a turn of the loop stood.
IdxOf(e) == e.token.column - 1

\* The turn stood in a line of the input, at one of its characters.
InInput(e) ==
    /\ e.token.line \in 1..Len(t_file)
    /\ IdxOf(e) \in 0..(Len(t_file[e.token.line]) - 1)

\* The pattern of the turn matches at its position, no pattern before it in
\* self._patterns does, and the text of the token is what the pattern matches.
BuiltFromFirstMatch(e) ==
    LET line == t_file[e.token.line]
    IN  /\ e.pattern \in 1..Len(t_patterns)
        /\ \A j \in 1..(e.pattern - 1) : MatchEnd(t_patterns[j].pattern, line, IdxOf(e)) = Null
        /\ MatchEnd(t_patterns[e.pattern].pattern, line, IdxOf(e)) = IdxOf(e) + Len(e.token.text)
        /\ e.token.text = SubSeq(line, IdxOf(e) + 1, IdxOf(e) + Len(e.token.text))
        /\ e.token.kind = t_patterns[e.pattern].constructor

\* The turn after a match stands exactly at the end of the match: further on
\* in the line, or at the start of the next line if the match ended the line.
ResumesAtEnd(e, next) ==
    LET end == IdxOf(e) + Len(e.token.text)
    IN  IF end < Len(t_file[e.token.line])
          THEN next.token.line = e.token.line /\ IdxOf(next) = end
          ELSE /\ end = Len(t_file[e.token.line])
               /\ next.token.line = e.token.line + 1
               /\ IdxOf(next) = 0

\* The texts of a sequence of turns or tokens, concatenated.
RECURSIVE Texts_(_)
Texts_(seq) == IF seq = <<>> THEN <<>> ELSE Head(seq).token.text \o Texts_(Tail(seq))

\* C23: the tokens of the patterns are yielded in input order, each built from
\* the first pattern in the given order that matches where the loop stands;
\* the loop resumes at the end of the match; a match of a pattern without
\* constructor yields nothing; and when the generator returns after matching at
\* every position, the matches concatenate to the input and, if every pattern
\* has a constructor, so do the yielded tokens.
C23_TokensFollowTheInput ==
    /\ \A i \in 1..Len(t_trace) : InInput(t_trace[i])
    /\ \A i \in 1..Len(Matches) : BuiltFromFirstMatch(Matches[i])
    /\ \A i \in 1..(Len(t_trace) - 1) :
         t_trace[i].matched => ResumesAtEnd(t_trace[i], t_trace[i + 1])
    /\ SelectSeq(t_yielded, LAMBDA t : t.kind # "?")
         = [i \in 1..Len(SelectSeq(Matches, LAMBDA e : e.token.kind # "None")) |->
              SelectSeq(Matches, LAMBDA e : e.token.kind # "None")[i].token]
    /\ (t_pc = "returned" /\ Matches = t_trace) =>
         /\ Texts_(t_trace) = Join(t_file)
         /\ (\A i \in 1..Len(t_patterns) : t_patterns[i].constructor # "None") =>
              Join([i \in 1..Len(t_yielded) |-> t_yielded[i].text]) = Join(t_file)

\* A run that returned with two tokens, consumed a match without a token, and
\* took the first of two patterns that both matched.
C23_Witness ==
    /\ t_pc = "returned"
    /\ Matches = t_trace
    /\ Len(t_yielded) >= 2
    /\ \E i \in 1..Len(t_trace) : t_trace[i].token.kind = "None"
    /\ \E i \in 1..Len(t_trace) :
         /\ t_trace[i].pattern = 1
         /\ Len(t_patterns) = 2
         /\ MatchEnd(t_patterns[2].pattern, t_file[t_trace[i].token.line], IdxOf(t_trace[i])) # Null

\* The turns of the loop in which no pattern matched and the handler was called.
NoMatches == SelectSeq(t_trace, LAMBDA e : ~e.matched)

\* What the handler did when the turn called it.
Handled(e) == no_match(t_no_match, e.token.text, e.token.filename, e.token.line, e.token.column)

\* The handler returned a pair whose token is not a StopIteration.
GoesOn(e) == Handled(e).raises = NoParseError /\ Handled(e).token # StopIterationToken

\* The handler was called where no pattern matches, with the rest of the line
\* from there, the file name, the number of the line and the 1-based column.
CalledWithRest(e) ==
    LET line == t_file[e.token.line]
    IN  /\ \A j \in 1..Len(t_patterns) : MatchEnd(t_patterns[j].pattern, line, IdxOf(e)) = Null
        /\ e.token.text = SubSeq(line, IdxOf(e) + 1, Len(line))
        /\ e.token.filename = t_filename

\* The loop stands n characters after the turn e: in the same line, or at the
\* start of the next line if that is at or beyond the end of the line.
StandsAfter(e, n, line_no, idx) ==
    IF IdxOf(e) + n < Len(t_file[e.token.line])
      THEN line_no = e.token.line /\ idx = IdxOf(e) + n
      ELSE line_no = e.token.line + 1 /\ idx = 0

\* C24: the handler is called with the unprocessed rest of the current line;
\* a returned StopIteration ends the generator at once, whatever lines remain;
\* otherwise the returned token is yielded unless it is None and the loop goes
\* on exactly the returned length further.  With quit nothing follows the first
\* unmatched text, with skip_char the loop goes on one character further, with
\* skip_line at the start of the next line.
C24_NoMatchHandlerDecides ==
    /\ \A i \in 1..Len(NoMatches) : InInput(NoMatches[i]) /\ CalledWithRest(NoMatches[i])
    /\ \A i \in 1..Len(t_trace) :
         ~t_trace[i].matched =>
           IF ~GoesOn(t_trace[i])
             THEN /\ i = Len(t_trace)
                  /\ t_pc = IF Handled(t_trace[i]).raises = NoParseError
                              THEN "returned" ELSE "raised"
                  /\ t_n_lines = t_trace[i].token.line
             ELSE /\ t_trace[i].length = Handled(t_trace[i]).length
                  /\ i < Len(t_trace) =>
                       StandsAfter(t_trace[i], t_trace[i].length,
                                   t_trace[i + 1].token.line, IdxOf(t_trace[i + 1]))
                  /\ (i = Len(t_trace) /\ t_pc = "line") =>
                       StandsAfter(t_trace[i], t_trace[i].length, t_n_lines, t_idx)
    /\ SelectSeq(t_yielded, LAMBDA t : t.kind = "?")
         = [i \in 1..Len(SelectSeq(NoMatches, LAMBDA e : GoesOn(e) /\ Handled(e).token # NoToken)) |->
              Handled(SelectSeq(NoMatches, LAMBDA e : GoesOn(e) /\ Handled(e).token # NoToken)[i]).token]
    /\ t_no_match = "quit" =>
         /\ Len(NoMatches) <= 1
         /\ NoMatches # <<>> => ~t_trace[Len(t_trace)].matched /\ t_pc = "returned"
    /\ t_no_match = "skip_char" =>
         \A i \in 1..Len(NoMatches) : NoMatches[i].length = 1
    /\ t_no_match = "skip_line" =>
         \A i \in 1..Len(t_trace), j \in 1..Len(t_trace) :
           (~t_trace[i].matched /\ i < j) => t_trace[j].token.line > t_trace[i].token.line

\* skip_line dropped the rest of the first line, a line end included, and a
\* token of the second line was yielded after it.
C24_Witness ==
    /\ t_no_match = "skip_line"
    /\ t_pc = "returned"
    /\ \E i \in 1..Len(t_trace) :
         /\ ~t_trace[i].matched
         /\ t_trace[i].token.line = 1
         /\ t_trace[i].length >= 2
    /\ \E k \in 1..Len(t_yielded) : t_yielded[k].line = 2

\* The characters of the input before the 1-based column of a line.
Before(line_no, column) ==
    Join(SubSeq(t_file, 1, line_no - 1)) \o SubSeq(t_file[line_no], 1, column - 1)

\* C25: with raise_error the first position where no pattern matches ends the
\* generator with a ParseError that carries the file name given, the 1-based
\* number of the line, the 1-based column of the unmatched character in that
\* line and the rest of the line from that character on; everything before
\* that position was matched, and the tokens of those matches were yielded.
C25_ParseErrorLocatesFirstUnmatched ==
    t_no_match = "raise_error" =>
      /\ Len(NoMatches) <= 1
      /\ t_pc = "raised" <=> NoMatches # <<>>
      /\ t_pc # "raised" => t_exc = NoParseError
      /\ t_pc = "raised" =>
           /\ t_exc.type = "ParseError"
           /\ t_exc.filename = t_filename
           /\ t_exc.line \in 1..Len(t_file)
           /\ t_exc.column \in 1..Len(t_file[t_exc.line])
           /\ \A j \in 1..Len(t_patterns) :
                MatchEnd(t_patterns[j].pattern, t_file[t_exc.line], t_exc.column - 1) = Null
           /\ Texts_(Matches) = Before(t_exc.line, t_exc.column)
           /\ Before(t_exc.line, t_exc.column) \o t_exc.text
                = Join(SubSeq(t_file, 1, t_exc.line))
           /\ t_yielded = [i \in 1..Len(SelectSeq(Matches, LAMBDA e : e.token.kind # "None")) |->
                             SelectSeq(Matches, LAMBDA e : e.token.kind # "None")[i].token]

\* The error is raised in the second line, past its first column, after two
\* tokens were yielded.
C25_Witness ==
    /\ t_no_match = "raise_error"
    /\ t_pc = "raised"
    /\ t_exc.line = 2
    /\ t_exc.column = 2
    /\ t_exc.text # <<>>
    /\ Len(t_yielded) = 2

(***************************************************************************)
(* Properties of the parser.                                               *)
(***************************************************************************)

\* The positions before i of the tokens of a kind.
Preceding(kind, i) == {j \in 1..(i - 1) : p_tokens[j].kind = kind}

\* max(S), 0 if S is empty.
Latest(S) == IF S = {} THEN 0 ELSE CHOOSE x \in S : \A y \in S : y <= x

\* A time interval precedes token i, with no date between it and token i.
Remembered(i) ==
    /\ Preceding("timeInterval", i) # {}
    /\ Latest(Preceding("timeInterval", i)) > Latest(Preceding("date", i))

SortStart == IF s_start = Null THEN 0 ELSE s_start
SortStop == IF s_stop = Null THEN Len(s_input) ELSE s_stop

\* The value an attribute getter returns for an object.
SortValue(fm, key) ==
    IF key = "pick_orig__mtime" THEN fm.stat.st_mtime_ns ELSE fm.stat.st_nlink

\* The tuple of all keys of an object, a key of a reversed direction negated.
KeyTuple(fm) ==
    [j \in 1..Len(s_keys) |->
       IF s_reverses # <<>> /\ s_reverses[j] THEN 0 - SortValue(fm, s_keys[j])
       ELSE SortValue(fm, s_keys[j])]

\* The paths of the list passed after one stable sort of the range by the tuple.
SortedOnce ==
    LET n == SortStop - SortStart
        srt == StableSort([i \in 1..n |-> [k |-> KeyTuple(s_input[SortStart + i]),
                                          v |-> s_input[SortStart + i].path]], FALSE)
    IN  [i \in 1..Len(s_input) |->
           IF i > SortStart /\ i <= SortStop THEN srt[i - SortStart].v ELSE s_input[i].path]

BuiltinStyle == dedup_cmd \in {"hardlink", "softlink", "reflink"}

\* The content the copy has when dedup() starts is read under the copy path or
\* under the backup path.
CopyContentReachable(nm, ino) ==
    \E n \in {"copy", "bkup"} :
      Deref(nm, n) # Absent /\ ino[Deref(nm, n)].data = ino[CopyIno].data

\* No statement of the built-in styles takes the content of the copy away from
\* both the copy path and the backup path, and none changes the directory entry
\* of the original or its file.
KeepsCopyAndOriginal ==
    BuiltinStyle =>
      /\ CopyContentReachable(names, inodes) => CopyContentReachable(names', inodes')
      /\ names'["orig"] = names["orig"]
      /\ inodes'[OrigIno] = inodes[OrigIno]

\* C30: on any paths, every step of dedup(), a step that aborts included,
\* keeps the content of the copy under the copy path or the backup path and
\* leaves the original as it is.
C30_CopyKeptOriginalUntouched == [][KeepsCopyAndOriginal]_vars

\* The same for calls in which the backup path is not the path of the original.
C30_CopyKeptOriginalUntouchedApart == [][~bkup_is_orig => KeepsCopyAndOriginal]_vars

\* A call with the paths apart has moved the copy aside, linked and removed the
\* backup.
C30_ApartWitness ==
    /\ ~bkup_is_orig
    /\ BuiltinStyle
    /\ pc = "done"
    /\ names["bkup"] = Absent
    /\ names["copy"] \notin {Absent, CopyIno}
    /\ inodes[CopyIno].ext # inodes[OrigIno].ext

====
